---------------------------- MODULE Spec2Model ----------------------------
(***************************************************************************)
(* A model of the mcp25xxFD driver core (src/src/lib.rs, frame.rs,         *)
(* config.rs, registers.rs): the frame codec, the bit-timing resolver, the *)
(* configuration operations and the transmit / receive dispatch, together  *)
(* with the part of the controller chip the driver talks to.               *)
(*                                                                         *)
(* The driver holds no state of its own besides the bus handle; the state  *)
(* of the model is the chip's registers and queues, the transactions the   *)
(* last driver call issued on the bus, and the value that call returned.   *)
(***************************************************************************)
EXTENDS Integers, Sequences, FiniteSets, TLC

VARIABLES
    call,       \* the last operation called, with its inputs
    result,     \* what that call returned (or the panic that ended it)
    frame,      \* codec: the frame under construction / being sent
    header,     \* codec: the header and payload as_components produced
    rxframe,    \* codec: the frame from_rx_message rebuilt
    cfg,        \* setup: the Config the application sets the controller up with
    bus,        \* the transactions the last driver call issued, in order
    chip        \* the controller chip: registers, FIFOs, RAM

vars == <<call, result, frame, header, rxframe, cfg, bus, chip>>

-----------------------------------------------------------------------------
(* Results of calls.                                                       *)

NoCall == [name |-> "none"]
NoValue == [tag |-> "none"]
Ok(v) == [tag |-> "Ok", value |-> v]
Some(v) == [tag |-> "Some", value |-> v]
None == [tag |-> "None"]
Unit == "()"
\* A Rust panic: the call does not return to its caller.
Panic(msg) == [tag |-> "Panic", msg |-> msg]
\* Error::SPIError(e): the transport's error value e, wrapped.
SPIError(e) == [tag |-> "Err", kind |-> "SPIError", error |-> e]
ControllerError(msg) == [tag |-> "Err", kind |-> "ControllerError", msg |-> msg]

Pow2(n) == 2 ^ n

\* Bitwise OR and AND of two values below 2^16.
BitOr(a, b) ==
    LET bit(i) == IF (a \div Pow2(i)) % 2 = 1 \/ (b \div Pow2(i)) % 2 = 1
                  THEN Pow2(i) ELSE 0
    IN bit(0) + bit(1) + bit(2) + bit(3) + bit(4) + bit(5) + bit(6) + bit(7)
       + bit(8) + bit(9) + bit(10) + bit(11) + bit(12) + bit(13) + bit(14) + bit(15)

BitAnd(a, b) ==
    LET bit(i) == IF (a \div Pow2(i)) % 2 = 1 /\ (b \div Pow2(i)) % 2 = 1
                  THEN Pow2(i) ELSE 0
    IN bit(0) + bit(1) + bit(2) + bit(3) + bit(4) + bit(5) + bit(6) + bit(7)
       + bit(8) + bit(9) + bit(10) + bit(11) + bit(12) + bit(13) + bit(14) + bit(15)

Min(S) == CHOOSE x \in S : \A y \in S : x <= y

-----------------------------------------------------------------------------
(* Bounds of the model.                                                    *)

\* Frame::new is tried with data slices of 0 .. MaxLen bytes.
MaxLen == 66

-----------------------------------------------------------------------------
(* Data length codes (registers.rs, DataLengthCode).                       *)

DataLengthCode == 0 .. 15

\* DataLengthCode::bytes: the byte count a code stands for.
bytes(dlc) == <<0, 1, 2, 3, 4, 5, 6, 7, 8, 12, 16, 20, 24, 32, 48, 64>>[dlc + 1]

\* DataLengthCode::best_fit: the code for a payload of len bytes.
best_fit(len) ==
    IF len <= 8 THEN Some(len)
    ELSE IF len <= 12 THEN Some(9)
    ELSE IF len <= 16 THEN Some(10)
    ELSE IF len <= 20 THEN Some(11)
    ELSE IF len <= 24 THEN Some(12)
    ELSE IF len <= 32 THEN Some(13)
    ELSE IF len <= 48 THEN Some(14)
    ELSE IF len <= 64 THEN Some(15)
    ELSE None

-----------------------------------------------------------------------------
(* Identifiers (embedded_can::Id) and frames (frame.rs).                   *)

StandardId(raw) == [kind |-> "Standard", raw |-> raw]
ExtendedId(raw) == [kind |-> "Extended", raw |-> raw]

STANDARD_MAX == Pow2(11) - 1   \* StandardId::MAX, 0x7FF
EXTENDED_MAX == Pow2(29) - 1   \* ExtendedId::MAX, 0x1FFF_FFFF

\* The identifiers the codec is exercised with: the ends of both ranges, the
\* extended values without high bits, and 0x1ABCDE.
SampleIds ==
    { StandardId(r) : r \in {0, 21, STANDARD_MAX} } \cup
    { ExtendedId(r) : r \in {0, STANDARD_MAX, 2048, 2049, 1752286, EXTENDED_MAX} }

\* The bytes of a data slice of len bytes (byte i is i, so no two agree).
Slice(len) == [i \in 1 .. len |-> i]

NoFrame == [tag |-> "none"]

\* let mut data = [0; 64]; data[0..len].copy_from_slice(data_slice)
Buffer(data_slice) ==
    [i \in 1 .. 64 |-> IF i <= Len(data_slice) THEN data_slice[i] ELSE 0]

\* A plausible slip of Frame::new: the code is chosen for the largest byte
\* count that does not exceed the length (rounding down).
FrameNewRoundingDown(id, data_slice) ==
    IF Len(data_slice) > 64
    THEN Panic("range end index out of range for slice of length 64")
    ELSE LET n == Len(data_slice)
             d == CHOOSE c \in DataLengthCode :
                      /\ bytes(c) <= n
                      /\ \A e \in DataLengthCode : bytes(e) <= n => bytes(e) <= bytes(c)
         IN Some([id |-> id, dlc |-> d, data |-> Buffer(data_slice),
                  sequence_number |-> 0])

\* Frame::new.  The copy into the 64-byte buffer comes first and panics when
\* the slice is longer than the buffer; best_fit is evaluated after it.
FrameNew(id, data_slice) ==
    IF Len(data_slice) > 64
    THEN Panic("range end index out of range for slice of length 64")
    ELSE LET d == best_fit(Len(data_slice))
         IN IF d = None THEN None
            ELSE Some([id |-> id, dlc |-> d.value, data |-> Buffer(data_slice),
                       sequence_number |-> 0])

\* Frame::data: the first bytes(dlc) bytes of the buffer.
data(f) == SubSeq(f.data, 1, bytes(f.dlc))

\* The sequence numbers with_sequence_number is tried with: the default, the
\* largest value of the 23-bit field and the first value beyond it.
SampleSeqs == {0, Pow2(23) - 1, Pow2(23)}

with_sequence_number(f, sequence_number) ==
    [f EXCEPT !.sequence_number = sequence_number]

with_dlc(f, dlc) == [f EXCEPT !.dlc = dlc]

\* TransmitMessageObjectHeader::with_seq: the setter of a B23 field panics on
\* a value that does not fit it.
SeqFits(seq) == seq < Pow2(23)

\* A plausible slip of as_components: FD frames are marked FDF but are not
\* switched to the data bit rate.
as_components_without_brs(f) ==
    LET sid == IF f.id.kind = "Standard" THEN f.id.raw ELSE f.id.raw % 2048
        eid == IF f.id.kind = "Standard" THEN 0 ELSE f.id.raw \div 2048
        is_fd_frame == bytes(f.dlc) > 8
    IN IF ~SeqFits(f.sequence_number)
       THEN Panic("value out of bounds for field TransmitMessageObjectHeader.seq")
       ELSE Ok([header |-> [sid |-> sid, eid |-> eid,
                            seq |-> f.sequence_number,
                            ide |-> (eid > 0),
                            fdf |-> is_fd_frame,
                            brs |-> FALSE,
                            rtr |-> FALSE, esi |-> FALSE, sid11 |-> FALSE,
                            dlc |-> f.dlc],
                data |-> data(f)])

\* Frame::as_components: the transmit header and the payload slice.
as_components(f) ==
    LET sid == IF f.id.kind = "Standard" THEN f.id.raw ELSE f.id.raw % 2048
        eid == IF f.id.kind = "Standard" THEN 0 ELSE f.id.raw \div 2048
        is_fd_frame == bytes(f.dlc) > 8
    IN IF ~SeqFits(f.sequence_number)
       THEN Panic("value out of bounds for field TransmitMessageObjectHeader.seq")
       ELSE Ok([header |-> [sid |-> sid, eid |-> eid,
                            seq |-> f.sequence_number,
                            ide |-> (eid > 0),
                            fdf |-> is_fd_frame,
                            brs |-> is_fd_frame,
                            rtr |-> FALSE, esi |-> FALSE, sid11 |-> FALSE,
                            dlc |-> f.dlc],
                data |-> data(f)])

\* The receive header of a message that was sent with transmit header h: the
\* fields the two layouts share (registers.rs, ReceiveMessageObjectHeader).
RxHeaderOf(h) ==
    [dlc |-> h.dlc, ide |-> h.ide, rtr |-> h.rtr, brs |-> h.brs, fdf |-> h.fdf,
     esi |-> h.esi, filthit |-> 0, sid |-> h.sid, eid |-> h.eid,
     sid11 |-> h.sid11]

\* The bits of the 18-bit value x that a u32 shift left by sh (0 .. 31) keeps.
ShlKept(x, sh) == IF sh <= 14 THEN x ELSE x % Pow2(32 - sh)

\* ExtendedId::new(x << sh) for a u32 x below 2^18 and sh in 0 .. 31: None
\* when the shifted value exceeds ExtendedId::MAX.
ExtendedIdNewShl(x, sh) ==
    LET kept == ShlKept(x, sh)
    IN IF kept = 0 THEN Some(ExtendedId(0))
       ELSE IF sh <= 29 /\ kept < Pow2(29 - sh)
            THEN Some(ExtendedId(kept * Pow2(sh)))
            ELSE None

\* Frame::from_rx_message.  `header.eid() << 11 + header.sid()` parses as
\* eid << (11 + sid).  A shift by 32 or more panics in a build with overflow
\* checks and is taken modulo 32 in a build without them.
from_rx_message(h, buffer, overflow_checks) ==
    IF h.eid = 0
    THEN Ok([id |-> StandardId(h.sid), dlc |-> h.dlc, data |-> buffer,
             sequence_number |-> 0])
    ELSE LET amount == 11 + h.sid
         IN IF amount >= 32 /\ overflow_checks
            THEN Panic("attempt to shift left with overflow")
            ELSE LET id == ExtendedIdNewShl(h.eid, amount % 32)
                 IN IF id = None
                    THEN Panic("called Option::unwrap() on a None value")
                    ELSE Ok([id |-> id.value, dlc |-> h.dlc, data |-> buffer,
                             sequence_number |-> 0])

-----------------------------------------------------------------------------
(* The bit-timing resolver (config.rs).                                    *)

Clock == {"Clock20MHz", "Clock40MHz"}
ArbitrationBitRate == {"Rate125K", "Rate250K", "Rate500K", "Rate1000K"}
DataBitRate == {"Rate500K", "Rate833K", "Rate1M", "Rate1M5", "Rate2M", "Rate3M",
                "Rate4M", "Rate5M", "Rate6M7", "Rate8M", "Rate10M"}

\* The arbitration-phase fields get_config sets for a clock and a rate.
Arbitration(brp, tseg1, tseg2, sjw) ==
    [arbitration_brp |-> brp, arbitration_tseg1 |-> tseg1,
     arbitration_tseg2 |-> tseg2, arbitration_sjw |-> sjw]

\* The data-phase fields of one arm of the match on (arbitration, data).
\* tdc_mode starts as 0b10 (automatic) and an arm may overwrite it.
DataPhase(brp, tseg1, tseg2, sjw, tdc_offset, tdc_value, tdc_mode) ==
    [data_brp |-> brp, data_tseg1 |-> tseg1, data_tseg2 |-> tseg2,
     data_sjw |-> sjw, tdc_offset |-> tdc_offset, tdc_value |-> tdc_value,
     tdc_mode |-> tdc_mode]

TDC_AUTO == 2
TDC_MANUAL == 0

\* A plausible slip of the arbitration table: the 20 MHz arms repeat the
\* 40 MHz values.
ArbitrationConfigIgnoringClock(clock, arbitration) ==
    CASE arbitration = "Rate125K"  -> Arbitration(0, 254, 63, 63)
      [] arbitration = "Rate250K"  -> Arbitration(0, 126, 31, 31)
      [] arbitration = "Rate500K"  -> Arbitration(0, 62, 15, 15)
      [] arbitration = "Rate1000K" -> Arbitration(0, 30, 7, 7)

ArbitrationConfig(clock, arbitration) ==
    IF clock = "Clock40MHz"
    THEN CASE arbitration = "Rate125K"  -> Arbitration(0, 254, 63, 63)
           [] arbitration = "Rate250K"  -> Arbitration(0, 126, 31, 31)
           [] arbitration = "Rate500K"  -> Arbitration(0, 62, 15, 15)
           [] arbitration = "Rate1000K" -> Arbitration(0, 30, 7, 7)
    ELSE CASE arbitration = "Rate125K"  -> Arbitration(0, 126, 31, 31)
           [] arbitration = "Rate250K"  -> Arbitration(0, 62, 15, 15)
           [] arbitration = "Rate500K"  -> Arbitration(0, 30, 7, 7)
           [] arbitration = "Rate1000K" -> Arbitration(0, 14, 3, 3)

\* A plausible slip in the 40 MHz table: the arm for (250K, 833K) does not
\* overwrite the mode, which stays automatic.
DataConfig40AllAutomatic(a, d) ==
    CASE a = "Rate500K" /\ d = "Rate1M"  -> Some(DataPhase(0, 30, 7, 7, 31, 0, TDC_AUTO))
      [] a = "Rate500K" /\ d = "Rate2M"  -> Some(DataPhase(0, 14, 3, 3, 15, 0, TDC_AUTO))
      [] a = "Rate500K" /\ d = "Rate3M"  -> Some(DataPhase(0, 8, 2, 2, 9, 0, TDC_AUTO))
      [] a \in {"Rate500K", "Rate1000K"} /\ d = "Rate4M"
                                         -> Some(DataPhase(0, 6, 1, 1, 7, 0, TDC_AUTO))
      [] a = "Rate500K" /\ d = "Rate5M"  -> Some(DataPhase(0, 4, 1, 1, 5, 0, TDC_AUTO))
      [] a = "Rate500K" /\ d = "Rate6M7" -> Some(DataPhase(0, 3, 0, 0, 4, 0, TDC_AUTO))
      [] a \in {"Rate500K", "Rate1000K"} /\ d = "Rate8M"
                                         -> Some(DataPhase(0, 2, 0, 0, 3, 1, TDC_AUTO))
      [] a = "Rate500K" /\ d = "Rate10M" -> Some(DataPhase(0, 1, 0, 0, 2, 0, TDC_AUTO))
      [] a \in {"Rate250K", "Rate125K"} /\ d = "Rate500K"
                                         -> Some(DataPhase(1, 30, 7, 7, 31, 0, TDC_MANUAL))
      [] a = "Rate250K" /\ d = "Rate833K" -> Some(DataPhase(1, 17, 4, 4, 18, 0, TDC_AUTO))
      [] a = "Rate250K" /\ d = "Rate1M"  -> Some(DataPhase(0, 30, 7, 7, 31, 0, TDC_AUTO))
      [] a = "Rate250K" /\ d = "Rate1M5" -> Some(DataPhase(0, 18, 5, 5, 19, 0, TDC_AUTO))
      [] a = "Rate250K" /\ d = "Rate2M"  -> Some(DataPhase(0, 14, 3, 3, 15, 0, TDC_AUTO))
      [] a = "Rate250K" /\ d = "Rate3M"  -> Some(DataPhase(0, 8, 2, 2, 9, 0, TDC_AUTO))
      [] a = "Rate250K" /\ d = "Rate4M"  -> Some(DataPhase(0, 6, 1, 1, 7, 0, TDC_AUTO))
      [] OTHER -> None

DataConfig40(a, d) ==
    CASE a = "Rate500K" /\ d = "Rate1M"  -> Some(DataPhase(0, 30, 7, 7, 31, 0, TDC_AUTO))
      [] a = "Rate500K" /\ d = "Rate2M"  -> Some(DataPhase(0, 14, 3, 3, 15, 0, TDC_AUTO))
      [] a = "Rate500K" /\ d = "Rate3M"  -> Some(DataPhase(0, 8, 2, 2, 9, 0, TDC_AUTO))
      [] a \in {"Rate500K", "Rate1000K"} /\ d = "Rate4M"
                                         -> Some(DataPhase(0, 6, 1, 1, 7, 0, TDC_AUTO))
      [] a = "Rate500K" /\ d = "Rate5M"  -> Some(DataPhase(0, 4, 1, 1, 5, 0, TDC_AUTO))
      [] a = "Rate500K" /\ d = "Rate6M7" -> Some(DataPhase(0, 3, 0, 0, 4, 0, TDC_AUTO))
      [] a \in {"Rate500K", "Rate1000K"} /\ d = "Rate8M"
                                         -> Some(DataPhase(0, 2, 0, 0, 3, 1, TDC_AUTO))
      [] a = "Rate500K" /\ d = "Rate10M" -> Some(DataPhase(0, 1, 0, 0, 2, 0, TDC_AUTO))
      [] a \in {"Rate250K", "Rate125K"} /\ d = "Rate500K"
                                         -> Some(DataPhase(1, 30, 7, 7, 31, 0, TDC_MANUAL))
      [] a = "Rate250K" /\ d = "Rate833K" -> Some(DataPhase(1, 17, 4, 4, 18, 0, TDC_MANUAL))
      [] a = "Rate250K" /\ d = "Rate1M"  -> Some(DataPhase(0, 30, 7, 7, 31, 0, TDC_AUTO))
      [] a = "Rate250K" /\ d = "Rate1M5" -> Some(DataPhase(0, 18, 5, 5, 19, 0, TDC_AUTO))
      [] a = "Rate250K" /\ d = "Rate2M"  -> Some(DataPhase(0, 14, 3, 3, 15, 0, TDC_AUTO))
      [] a = "Rate250K" /\ d = "Rate3M"  -> Some(DataPhase(0, 8, 2, 2, 9, 0, TDC_AUTO))
      [] a = "Rate250K" /\ d = "Rate4M"  -> Some(DataPhase(0, 6, 1, 1, 7, 0, TDC_AUTO))
      [] OTHER -> None

\* A plausible slip in the 20 MHz table: the 40 MHz arm for (500K, 3M) copied
\* into it, so that an unsupported pair resolves.
DataConfig20WithExtraArm(a, d) ==
    CASE a = "Rate500K" /\ d = "Rate1M"  -> Some(DataPhase(0, 14, 3, 3, 15, 0, TDC_AUTO))
      [] a = "Rate500K" /\ d = "Rate2M"  -> Some(DataPhase(0, 6, 1, 1, 7, 0, TDC_AUTO))
      [] a = "Rate500K" /\ d = "Rate3M"  -> Some(DataPhase(0, 8, 2, 2, 9, 0, TDC_AUTO))
      [] a \in {"Rate500K", "Rate1000K"} /\ d = "Rate4M"
                                         -> Some(DataPhase(0, 2, 0, 0, 3, 0, TDC_AUTO))
      [] a = "Rate500K" /\ d = "Rate5M"  -> Some(DataPhase(0, 1, 0, 0, 2, 0, TDC_AUTO))
      [] a \in {"Rate250K", "Rate125K"} /\ d = "Rate500K"
                                         -> Some(DataPhase(0, 30, 7, 7, 31, 0, TDC_MANUAL))
      [] a = "Rate250K" /\ d = "Rate833K" -> Some(DataPhase(0, 17, 4, 4, 18, 0, TDC_MANUAL))
      [] a = "Rate250K" /\ d = "Rate1M"  -> Some(DataPhase(0, 14, 3, 3, 15, 0, TDC_AUTO))
      [] a = "Rate250K" /\ d = "Rate1M5" -> Some(DataPhase(0, 8, 2, 2, 9, 0, TDC_AUTO))
      [] a = "Rate250K" /\ d = "Rate2M"  -> Some(DataPhase(0, 6, 1, 1, 7, 0, TDC_AUTO))
      [] a = "Rate250K" /\ d = "Rate4M"  -> Some(DataPhase(0, 2, 0, 0, 3, 0, TDC_AUTO))
      [] OTHER -> None

DataConfig20(a, d) ==
    CASE a = "Rate500K" /\ d = "Rate1M"  -> Some(DataPhase(0, 14, 3, 3, 15, 0, TDC_AUTO))
      [] a = "Rate500K" /\ d = "Rate2M"  -> Some(DataPhase(0, 6, 1, 1, 7, 0, TDC_AUTO))
      [] a \in {"Rate500K", "Rate1000K"} /\ d = "Rate4M"
                                         -> Some(DataPhase(0, 2, 0, 0, 3, 0, TDC_AUTO))
      [] a = "Rate500K" /\ d = "Rate5M"  -> Some(DataPhase(0, 1, 0, 0, 2, 0, TDC_AUTO))
      [] a \in {"Rate250K", "Rate125K"} /\ d = "Rate500K"
                                         -> Some(DataPhase(0, 30, 7, 7, 31, 0, TDC_MANUAL))
      [] a = "Rate250K" /\ d = "Rate833K" -> Some(DataPhase(0, 17, 4, 4, 18, 0, TDC_MANUAL))
      [] a = "Rate250K" /\ d = "Rate1M"  -> Some(DataPhase(0, 14, 3, 3, 15, 0, TDC_AUTO))
      [] a = "Rate250K" /\ d = "Rate1M5" -> Some(DataPhase(0, 8, 2, 2, 9, 0, TDC_AUTO))
      [] a = "Rate250K" /\ d = "Rate2M"  -> Some(DataPhase(0, 6, 1, 1, 7, 0, TDC_AUTO))
      [] a = "Rate250K" /\ d = "Rate4M"  -> Some(DataPhase(0, 2, 0, 0, 3, 0, TDC_AUTO))
      [] OTHER -> None

\* BitRate::get_config: Some(BitRateConfig) or None.
get_config(bit_rate, clock) ==
    LET arb == ArbitrationConfig(clock, bit_rate.arbitration)
        dat == IF clock = "Clock40MHz"
               THEN DataConfig40(bit_rate.arbitration, bit_rate.data)
               ELSE DataConfig20(bit_rate.arbitration, bit_rate.data)
    IN IF dat = None THEN None
       ELSE Some([f \in DOMAIN arb \cup DOMAIN dat.value |->
                     IF f \in DOMAIN arb THEN arb[f] ELSE dat.value[f]])

BitRate == [arbitration : ArbitrationBitRate, data : DataBitRate]

-----------------------------------------------------------------------------
(* The register access protocol (lib.rs): every driver call is a sequence  *)
(* of transfers on the bus.  A call is run on a context that carries the   *)
(* chip, the transfers issued so far, the transfer at which the transport  *)
(* fails (0: it does not) and, once the call has ended, what it returned.  *)

RAM_START == 1024        \* 0x400
RAM_SIZE == 2048
INIT_INCREMENT == 64

\* Register addresses (registers.rs, RegisterAddress::ADDRESS).
ADDR_CANControl == 0
ADDR_NominalBitTimeConfig == 4
ADDR_DataBitTimeConfig == 8
ADDR_TransmitterDelayCompensation == 12
ADDR_Interrupts == 28
ADDR_ReceiveInterruptStatus == 32
ADDR_ECCControl == 3596
ADDR_FIFOControl(M) == 92 + 12 * (M - 1)
ADDR_FIFOStatus(M) == 96 + 12 * (M - 1)
ADDR_FIFOUserAddress(M) == 100 + 12 * (M - 1)

\* SPI instructions (lib.rs, Instruction).
INSTRUCTION_Reset == 0
INSTRUCTION_Read == 3
INSTRUCTION_Write == 2

\* A plausible slip of Instruction::header: the low nibble of the address is
\* put next to the opcode instead of bits 8 .. 11.
Instruction_header_low_nibble(instruction, address) ==
    << ((instruction * 16) % 256) + (address % 16), address % 256 >>

\* Instruction::header: `(instruction << 4) + ((address >> 8) & 0xF) as u8`
\* on u8, then `(address & 0xFF) as u8`.
Instruction_header(instruction, address) ==
    << ((instruction * 16) % 256) + ((address \div 256) % 16), address % 256 >>

Ctx(chip0, fail) == [chip |-> chip0, bus |-> <<>>, fail |-> fail, done |-> NoValue]

Live(c) == c.done = NoValue

\* The error value the transport reports when the k-th transfer of a call
\* fails.
TransportError(k) == [transfer |-> k]

\* A transfer as the bus log keeps it when the transport failed on it.
Failed(txn, e) ==
    [f \in DOMAIN txn \cup {"error"} |->
        IF f = "error" THEN e ELSE IF f = "ok" THEN FALSE ELSE txn[f]]

\* A plausible slip of the transfer: a failed transfer is issued once more
\* before the call gives up.
TransferRetryingOnce(c, txn, chip_after) ==
    IF ~Live(c) THEN c
    ELSE IF Len(c.bus) + 1 = c.fail
         THEN [c EXCEPT !.bus = Append(Append(@, Failed(txn, TransportError(c.fail))), txn),
                        !.chip = chip_after]
         ELSE [c EXCEPT !.bus = Append(@, txn), !.chip = chip_after]

\* One transfer: `self.spi.<transfer>(...).await.map_err(Error::SPIError)?`.
\* When the transport fails the call returns its error, wrapped, at once,
\* and the chip is taken not to have acted on the transfer.
Transfer(c, txn, chip_after) ==
    IF ~Live(c) THEN c
    ELSE IF Len(c.bus) + 1 = c.fail
         THEN [c EXCEPT !.bus = Append(@, Failed(txn, TransportError(c.fail))),
                        !.done = SPIError(TransportError(c.fail))]
         ELSE [c EXCEPT !.bus = Append(@, txn), !.chip = chip_after]

\* The call ends here with value v, unless it has ended before.
Return(c, v) == IF Live(c) THEN [c EXCEPT !.done = v] ELSE c

\* MCP25xxFD::reset: the chip's registers take their reset values.
reset(c, chip_after) ==
    Transfer(c, [op |-> "reset", header |-> Instruction_header(INSTRUCTION_Reset, 0),
                 ok |-> TRUE], chip_after)

\* MCP25xxFD::read_register: one transfer; `value` is what the chip answers
\* (meaningless when the transfer fails).
read_register(c, address, value) ==
    Transfer(c, [op |-> "read_register", address |-> address,
                 header |-> Instruction_header(INSTRUCTION_Read, address),
                 value |-> value, ok |-> TRUE], c.chip)

\* A plausible slip of read_bytes: the transport's error is dropped instead
\* of returned, so the call goes on after a failed read.
read_bytes_ignoring_failure(c, B, address, bs) ==
    IF ~Live(c) THEN c
    ELSE IF B % 4 # 0
         THEN Return(c, Panic("Must read in multiples of 4 data bytes"))
         ELSE LET txn == [op |-> "read_bytes", address |-> RAM_START + address,
                          header |-> Instruction_header(INSTRUCTION_Read,
                                                        RAM_START + address),
                          data |-> bs, ok |-> TRUE]
              IN IF Len(c.bus) + 1 = c.fail
                 THEN [c EXCEPT !.bus = Append(@, Failed(txn, TransportError(c.fail)))]
                 ELSE Transfer(c, txn, c.chip)

\* MCP25xxFD::read_bytes::<B>: asserts that B is a multiple of 4, then one
\* transaction at wire address RAM_START + address; `bs` is what the chip
\* answers, B bytes.
read_bytes(c, B, address, bs) ==
    IF ~Live(c) THEN c
    ELSE IF B % 4 # 0
         THEN Return(c, Panic("Must read in multiples of 4 data bytes"))
         ELSE Transfer(c, [op |-> "read_bytes", address |-> RAM_START + address,
                           header |-> Instruction_header(INSTRUCTION_Read,
                                                         RAM_START + address),
                           data |-> bs, ok |-> TRUE], c.chip)

\* MCP25xxFD::write_register: one transaction, header then the 4 bytes.
write_register(c, address, value, chip_after) ==
    Transfer(c, [op |-> "write_register", address |-> address,
                 header |-> Instruction_header(INSTRUCTION_Write, address),
                 value |-> value, ok |-> TRUE], chip_after)

\* MCP25xxFD::write_bytes: asserts a length that is a multiple of 4, then one
\* transaction at wire address RAM_START + address.
write_register_byte(c, address, byte, chip_after) ==
    Transfer(c, [op |-> "write_register_byte", address |-> address,
                 header |-> Instruction_header(INSTRUCTION_Write, address),
                 value |-> byte, ok |-> TRUE], chip_after)

\* A plausible slip of write_bytes: the length is not asserted.
write_bytes_without_assert(c, address, bs, chip_after) ==
    Transfer(c, [op |-> "write_bytes", address |-> RAM_START + address,
                 header |-> Instruction_header(INSTRUCTION_Write,
                                               RAM_START + address),
                 data |-> bs, ok |-> TRUE], chip_after)

write_bytes(c, address, bs, chip_after) ==
    IF ~Live(c) THEN c
    ELSE IF Len(bs) % 4 # 0
         THEN Return(c, Panic("Must write in multiples of 4 data bytes"))
         ELSE Transfer(c, [op |-> "write_bytes", address |-> RAM_START + address,
                           header |-> Instruction_header(INSTRUCTION_Write,
                                                         RAM_START + address),
                           data |-> bs, ok |-> TRUE], chip_after)

\* The chip's RAM while the controller is set up, block by block: the byte
\* that every cell of the INIT_INCREMENT bytes from b * INIT_INCREMENT holds
\* (-1: never written).  Setting up writes RAM in whole blocks only.
RamBlocks == 0 .. (RAM_SIZE \div INIT_INCREMENT) - 1

\* MCP25xxFD::initialize_ram: for addr in (0..RAM_SIZE).step_by(INIT_INCREMENT),
\* one write of INIT_INCREMENT bytes, each byte `fill`; `?` leaves the loop.
RECURSIVE initialize_ram_from(_, _, _)
initialize_ram_from(c, bs, addr) ==
    IF addr >= RAM_SIZE \/ ~Live(c) THEN c
    ELSE initialize_ram_from(
             write_bytes(c, addr, bs,
                         [c.chip EXCEPT !.ram[addr \div INIT_INCREMENT] = bs[1]]),
             bs, addr + INIT_INCREMENT)

\* A plausible slip of initialize_ram: the loop starts one block late.
initialize_ram_skipping_first(c, fill) ==
    initialize_ram_from(c, [i \in 1 .. INIT_INCREMENT |-> fill], INIT_INCREMENT)

\* let bytes = [data; INIT_INCREMENT]
initialize_ram(c, fill) ==
    initialize_ram_from(c, [i \in 1 .. INIT_INCREMENT |-> fill], 0)

-----------------------------------------------------------------------------
(* reset_and_apply_config (lib.rs) and the registers it programs.  Of each *)
(* register the model keeps the fields the driver sets.                    *)

\* Operation modes (registers.rs, OperationMode).
MODE_Configuration == 4

\* The registers after a reset: the fields the driver sets are clear and the
\* controller is in Configuration mode (lib.rs, reset).
ResetRegisters ==
    [ecc  |-> [eccen |-> FALSE],
     can  |-> [isocrcen |-> FALSE, stef |-> FALSE, txqen |-> FALSE,
               rtxat |-> FALSE, reqop |-> MODE_Configuration],
     nbt  |-> [brp |-> 0, tseg1 |-> 0, tseg2 |-> 0, sjw |-> 0],
     dbt  |-> [brp |-> 0, tseg1 |-> 0, tseg2 |-> 0, sjw |-> 0],
     tdc  |-> [tdcmod |-> 0, tdco |-> 0, tdcv |-> 0],
     intr |-> [txie |-> FALSE, rxie |-> FALSE, cerrie |-> FALSE]]

\* RAM is not cleared by a reset; before its first initialization its
\* content is undefined.
UninitializedRam == [b \in RamBlocks |-> -1]

PowerOnChip == [regs |-> ResetRegisters, ram |-> UninitializedRam]

ChipReset(ch) == [ch EXCEPT !.regs = ResetRegisters]

\* The byte reset_and_apply_config passes to initialize_ram.
RAM_INIT_BYTE == 255

\* The configurations the driver is set up with: Config::default() and each
\* of its flags flipped, with every clock and every pair of rates.
DefaultFlags ==
    [ecc_enabled |-> TRUE, txq_enabled |-> FALSE, tx_event_fifo_enabled |-> FALSE,
     iso_crc_enabled |-> TRUE, restrict_retx_attempts |-> FALSE]

SampleFlags ==
    {DefaultFlags} \cup
    { [DefaultFlags EXCEPT ![f] = ~@] : f \in DOMAIN DefaultFlags }

Config(flags, bit_rate, clock) ==
    [f \in DOMAIN flags \cup {"bit_rate", "clock"} |->
        IF f = "bit_rate" THEN bit_rate
        ELSE IF f = "clock" THEN clock
        ELSE flags[f]]

SampleConfigs ==
    { Config(fl, br, ck) : fl \in SampleFlags, br \in BitRate, ck \in Clock }

\* The tail of reset_and_apply_config, from the bit-timing registers on.
apply_bit_timing(c, bitrate_config) ==
    LET nominal == [brp |-> bitrate_config.arbitration_brp,
                    tseg1 |-> bitrate_config.arbitration_tseg1,
                    tseg2 |-> bitrate_config.arbitration_tseg2,
                    sjw |-> bitrate_config.arbitration_sjw]
        c1 == write_register(c, ADDR_NominalBitTimeConfig, nominal,
                             [c.chip EXCEPT !.regs.nbt = nominal])
        dbt == [brp |-> bitrate_config.data_brp,
                tseg1 |-> bitrate_config.data_tseg1,
                tseg2 |-> bitrate_config.data_tseg2,
                sjw |-> bitrate_config.data_sjw]
        c2 == write_register(c1, ADDR_DataBitTimeConfig, dbt,
                             [c1.chip EXCEPT !.regs.dbt = dbt])
        c3 == read_register(c2, ADDR_TransmitterDelayCompensation, c2.chip.regs.tdc)
        tdc == [c3.chip.regs.tdc EXCEPT !.tdcmod = bitrate_config.tdc_mode,
                                        !.tdco = bitrate_config.tdc_offset,
                                        !.tdcv = bitrate_config.tdc_value]
        c4 == write_register(c3, ADDR_TransmitterDelayCompensation, tdc,
                             [c3.chip EXCEPT !.regs.tdc = tdc])
        c5 == read_register(c4, ADDR_Interrupts, c4.chip.regs.intr)
        intr == [c5.chip.regs.intr EXCEPT !.txie = FALSE, !.rxie = TRUE,
                                          !.cerrie = TRUE]
        c6 == write_register(c5, ADDR_Interrupts, intr,
                             [c5.chip EXCEPT !.regs.intr = intr])
    IN Return(c6, Ok(Unit))

\* A plausible slip of reset_and_apply_config: RAM is initialized right after
\* the reset, before the ECC setting is written.
reset_and_apply_config_ram_first(c, config) ==
    LET c1 == reset(c, ChipReset(c.chip))
        c2 == initialize_ram(c1, RAM_INIT_BYTE)
        c3 == read_register(c2, ADDR_ECCControl, c2.chip.regs.ecc)
        ecc == [c3.chip.regs.ecc EXCEPT !.eccen = config.ecc_enabled]
        c4 == write_register(c3, ADDR_ECCControl, ecc,
                             [c3.chip EXCEPT !.regs.ecc = ecc])
        c5 == read_register(c4, ADDR_CANControl, c4.chip.regs.can)
        can == [c5.chip.regs.can EXCEPT
                    !.isocrcen = config.iso_crc_enabled,
                    !.stef = config.tx_event_fifo_enabled,
                    !.txqen = config.txq_enabled,
                    !.rtxat = config.restrict_retx_attempts]
        c6 == write_register(c5, ADDR_CANControl, can,
                             [c5.chip EXCEPT !.regs.can = can])
        bitrate_config == get_config(config.bit_rate, config.clock)
    IN IF bitrate_config = None
       THEN Return(c6, Panic("Invalid bit rate pair for system clock"))
       ELSE apply_bit_timing(c6, bitrate_config.value)

\* MCP25xxFD::reset_and_apply_config.  The bit rate is resolved after the
\* reset, the ECC setting, the RAM initialization and the CAN control write;
\* `expect` panics when the resolver returns None.
reset_and_apply_config(c, config) ==
    LET c1 == reset(c, ChipReset(c.chip))
        c2 == read_register(c1, ADDR_ECCControl, c1.chip.regs.ecc)
        ecc == [c2.chip.regs.ecc EXCEPT !.eccen = config.ecc_enabled]
        c3 == write_register(c2, ADDR_ECCControl, ecc,
                             [c2.chip EXCEPT !.regs.ecc = ecc])
        c4 == initialize_ram(c3, RAM_INIT_BYTE)
        c5 == read_register(c4, ADDR_CANControl, c4.chip.regs.can)
        can == [c5.chip.regs.can EXCEPT
                    !.isocrcen = config.iso_crc_enabled,
                    !.stef = config.tx_event_fifo_enabled,
                    !.txqen = config.txq_enabled,
                    !.rtxat = config.restrict_retx_attempts]
        c6 == write_register(c5, ADDR_CANControl, can,
                             [c5.chip EXCEPT !.regs.can = can])
        bitrate_config == get_config(config.bit_rate, config.clock)
    IN IF bitrate_config = None
       THEN Return(c6, Panic("Invalid bit rate pair for system clock"))
       ELSE apply_bit_timing(c6, bitrate_config.value)

\* The transport fails at one of the first MaxFailAt transfers of a call, or
\* (0) not at all.
MaxFailAt == 7

-----------------------------------------------------------------------------
(* Setting the controller up, as a state machine.  The application holds a *)
(* Config; it may ask the resolver about it, and it resets and configures  *)
(* the controller with it, any number of times.                            *)

InitSetup ==
    /\ call = NoCall
    /\ result = NoValue
    /\ frame = NoFrame
    /\ header = NoValue
    /\ rxframe = NoValue
    /\ cfg \in SampleConfigs
    /\ bus = <<>>
    /\ chip = PowerOnChip

\* get_config is a pure function: nothing goes over the bus.
DoGetConfig ==
    /\ call' = [name |-> "get_config"]
    /\ result' = get_config(cfg.bit_rate, cfg.clock)
    /\ bus' = <<>>
    /\ UNCHANGED <<frame, header, rxframe, cfg, chip>>

DoResetAndApplyConfig ==
    \E fail \in 0 .. MaxFailAt :
        LET c == reset_and_apply_config(Ctx(chip, fail), cfg)
        IN /\ call' = [name |-> "reset_and_apply_config", fail |-> fail]
           /\ result' = c.done
           /\ bus' = c.bus
           /\ chip' = c.chip
           /\ UNCHANGED <<frame, header, rxframe, cfg>>

NextSetup ==
    \/ DoGetConfig
    \/ DoResetAndApplyConfig

SpecSetup == InitSetup /\ [][NextSetup]_vars

-----------------------------------------------------------------------------
(* configure_fifo (lib.rs) and the FIFO control register (registers.rs,    *)
(* FIFOControlM).                                                          *)

FIFOs == 1 .. 31

\* FIFOControlM::new(): every field zero.
FIFOControlNew ==
    [tfnrfnie |-> FALSE, tfhrfhie |-> FALSE, tferffie |-> FALSE, rxovie |-> FALSE,
     txatie |-> FALSE, rxtsen |-> FALSE, rtren |-> FALSE, txen |-> FALSE,
     uinc |-> FALSE, txreq |-> FALSE, freset |-> FALSE, txpri |-> 0, txat |-> 0,
     fsize |-> 0, plsize |-> 0]

\* A setter of a B5 field panics on a value that does not fit the field.
FitsB5(v) == v >= 0 /\ v < Pow2(5)

\* `fifo.size - 1` on a u8: a size of 0 panics in a build with overflow
\* checks and wraps to 255 in a build without them.
SizeMinusOne(size, overflow_checks) ==
    IF size >= 1 THEN Ok(size - 1)
    ELSE IF overflow_checks THEN Panic("attempt to subtract with overflow")
    ELSE Ok(Pow2(8) - 1)

\* What the chip keeps of a value written to a FIFO control register: UINC
\* and FRESET are commands, which read back as clear.
FIFOControlStored(value) == [value EXCEPT !.uinc = FALSE, !.freset = FALSE]

\* A plausible slip of configure_fifo: the depth is stored as it is given,
\* without the `- 1`.
configure_fifo_storing_depth(c, M, fifo, overflow_checks) ==
    IF ~FitsB5(fifo.size)
    THEN Return(c, Panic("value out of bounds for field FIFOControlM.fsize"))
    ELSE IF ~FitsB5(fifo.priority)
    THEN Return(c, Panic("value out of bounds for field FIFOControlM.txpri"))
    ELSE LET fifo_control ==
                 [FIFOControlNew EXCEPT
                     !.fsize = fifo.size,
                     !.plsize = fifo.payload_size,
                     !.txen = fifo.transmit,
                     !.txat = fifo.tx_attempts,
                     !.txpri = fifo.priority,
                     !.freset = TRUE,
                     !.tfnrfnie = ~fifo.transmit]
         IN Return(write_register(c, ADDR_FIFOControl(M), fifo_control,
                       [c.chip EXCEPT !.fifocon[M] = FIFOControlStored(fifo_control)]),
                   Ok(Unit))

\* A plausible slip of configure_fifo: the not-empty interrupt is enabled
\* whatever the direction.
configure_fifo_interrupt_always(c, M, fifo, overflow_checks) ==
    LET fsize == SizeMinusOne(fifo.size, overflow_checks)
    IN IF fsize.tag = "Panic" THEN Return(c, fsize)
       ELSE IF ~FitsB5(fsize.value)
       THEN Return(c, Panic("value out of bounds for field FIFOControlM.fsize"))
       ELSE IF ~FitsB5(fifo.priority)
       THEN Return(c, Panic("value out of bounds for field FIFOControlM.txpri"))
       ELSE LET fifo_control ==
                    [FIFOControlNew EXCEPT
                        !.fsize = fsize.value,
                        !.plsize = fifo.payload_size,
                        !.txen = fifo.transmit,
                        !.txat = fifo.tx_attempts,
                        !.txpri = fifo.priority,
                        !.freset = TRUE,
                        !.tfnrfnie = TRUE]
            IN Return(write_register(c, ADDR_FIFOControl(M), fifo_control,
                          [c.chip EXCEPT !.fifocon[M] = FIFOControlStored(fifo_control)]),
                      Ok(Unit))

\* MCP25xxFD::configure_fifo::<M>.
configure_fifo(c, M, fifo, overflow_checks) ==
    LET fsize == SizeMinusOne(fifo.size, overflow_checks)
    IN IF fsize.tag = "Panic" THEN Return(c, fsize)
       ELSE IF ~FitsB5(fsize.value)
       THEN Return(c, Panic("value out of bounds for field FIFOControlM.fsize"))
       ELSE IF ~FitsB5(fifo.priority)
       THEN Return(c, Panic("value out of bounds for field FIFOControlM.txpri"))
       ELSE LET fifo_control ==
                    [FIFOControlNew EXCEPT
                        !.fsize = fsize.value,
                        !.plsize = fifo.payload_size,
                        !.txen = fifo.transmit,
                        !.txat = fifo.tx_attempts,
                        !.txpri = fifo.priority,
                        !.freset = TRUE,
                        !.tfnrfnie = ~fifo.transmit]
            IN Return(write_register(c, ADDR_FIFOControl(M), fifo_control,
                          [c.chip EXCEPT !.fifocon[M] = FIFOControlStored(fifo_control)]),
                      Ok(Unit))

\* FIFO depths 0 .. MaxFifoSize are tried (the field is a u8).
MaxFifoSize == 33

\* The FIFO configurations tried: every depth, both directions, the ends of
\* the payload-size classes and of the retransmission policies, and the
\* priorities 0, 31 and (too large for the field) 32.
SampleFIFOConfigs ==
    [size : 0 .. MaxFifoSize, payload_size : {0, 7}, transmit : BOOLEAN,
     tx_attempts : {0, 3}, priority : {0, 31, 32}]

\* The FIFO indices (the const parameter M) the operations are tried with.
SampleFifos == {1, 31}

\* configure_fifo issues one transfer, so it can fail at the first or not
\* at all.
MaxFailAtFifo == 1

InitFifo ==
    /\ call = NoCall
    /\ result = NoValue
    /\ frame = NoFrame
    /\ header = NoValue
    /\ rxframe = NoValue
    /\ cfg \in SampleFIFOConfigs
    /\ bus = <<>>
    /\ chip = [fifocon |-> [m \in FIFOs |-> FIFOControlNew]]

DoConfigureFifo ==
    \E M \in SampleFifos, fail \in 0 .. MaxFailAtFifo, overflow_checks \in BOOLEAN :
        LET c == configure_fifo(Ctx(chip, fail), M, cfg, overflow_checks)
        IN /\ call' = [name |-> "configure_fifo", M |-> M, fail |-> fail,
                       overflow_checks |-> overflow_checks]
           /\ result' = c.done
           /\ bus' = c.bus
           /\ chip' = c.chip
           /\ UNCHANGED <<frame, header, rxframe, cfg>>

NextFifo ==
    \/ DoConfigureFifo

SpecFifo == InitFifo /\ [][NextFifo]_vars

-----------------------------------------------------------------------------
(* configure_filter (lib.rs) and the chip's filter registers.              *)

Filters == 0 .. 31

\* Register addresses (registers.rs): filter M is 0-indexed.
ADDR_FilterControl(M) == 464 + 4 * M
ADDR_FilterObject(M) == 496 + 8 * M
ADDR_Mask(M) == 500 + 8 * M

\* FilterObjectM::new() and MaskM::new(): every field zero.
FilterObjectNew == [sid |-> 0, eid |-> 0, sid11 |-> FALSE, exide |-> FALSE]
MaskNew == [msid |-> 0, meid |-> 0, msid11 |-> FALSE, mide |-> FALSE]

\* The identifier split that configure_filter makes for the filter and for
\* the mask: `id.as_raw() & 0x7FF` and `id.as_raw() >> 11`.
sid_component(id) == IF id.kind = "Standard" THEN id.raw ELSE BitAnd(id.raw % Pow2(16), 2047)
eid_component(id) == IF id.kind = "Standard" THEN 0 ELSE id.raw \div Pow2(11)

\* The filter control registers hold one byte for each filter, filter M in
\* byte M from FilterControl<0>::ADDRESS on: bits 0 .. 4 the FIFO pointer,
\* bit 7 the enable (registers.rs, FilterControlM).
FilterEnabled(ch, M) == ch.fltcon[M] \div 128 = 1
FilterPointer(ch, M) == ch.fltcon[M] % 32

\* The chip after a reset, as far as filters go: none enabled.
NoFilters ==
    [fltcon |-> [m \in Filters |-> 0],
     fltobj |-> [m \in Filters |-> FilterObjectNew],
     mask   |-> [m \in Filters |-> MaskNew]]

\* A plausible slip of configure_filter: the register that holds the slot is
\* written whole, with the other three slots of it clear.
configure_filter_whole_register(c, M, RXFIFO, filter, mask) ==
    LET filter_object == [FilterObjectNew EXCEPT !.exide = filter.match_only_extended,
                                                 !.sid = sid_component(filter.id),
                                                 !.eid = eid_component(filter.id)]
        c1 == write_register(c, ADDR_FilterObject(M), filter_object,
                             [c.chip EXCEPT !.fltobj[M] = filter_object])
        mask_config == [MaskNew EXCEPT !.mide = mask.match_id_type,
                                       !.msid = sid_component(mask.id),
                                       !.meid = eid_component(mask.id)]
        c2 == write_register(c1, ADDR_Mask(M), mask_config,
                             [c1.chip EXCEPT !.mask[M] = mask_config])
        first == 4 * (M \div 4)
        c3 == write_register(c2, ADDR_FilterControl(M \div 4), BitOr(128, RXFIFO),
                  [c2.chip EXCEPT !.fltcon =
                      [m \in Filters |->
                          IF m = M THEN BitOr(128, RXFIFO)
                          ELSE IF m \in first .. first + 3 THEN 0
                          ELSE @[m]]])
    IN Return(c3, Ok(Unit))

\* MCP25xxFD::configure_filter::<M, RXFIFO>.
configure_filter(c, M, RXFIFO, filter, mask) ==
    LET filter_object == [FilterObjectNew EXCEPT !.exide = filter.match_only_extended,
                                                 !.sid = sid_component(filter.id),
                                                 !.eid = eid_component(filter.id)]
        c1 == write_register(c, ADDR_FilterObject(M), filter_object,
                             [c.chip EXCEPT !.fltobj[M] = filter_object])
        mask_config == [MaskNew EXCEPT !.mide = mask.match_id_type,
                                       !.msid = sid_component(mask.id),
                                       !.meid = eid_component(mask.id)]
        c2 == write_register(c1, ADDR_Mask(M), mask_config,
                             [c1.chip EXCEPT !.mask[M] = mask_config])
        filter_control_address == ADDR_FilterControl(0) + M
        c3 == write_register_byte(c2, filter_control_address, BitOr(128, RXFIFO),
                  [c2.chip EXCEPT
                      !.fltcon[filter_control_address - ADDR_FilterControl(0)] =
                          BitOr(128, RXFIFO)])
    IN Return(c3, Ok(Unit))

\* FilterConfig::from_id and MaskConfig::from_id.
FilterConfig_from_id(id) == [match_only_extended |-> id.kind = "Extended", id |-> id]
MaskConfig_from_id(id) == [match_id_type |-> FALSE, id |-> id]

\* The filters and masks the application configures: built with from_id, or
\* with the flags set by hand.
SampleFilterConfigs ==
    { FilterConfig_from_id(StandardId(21)), FilterConfig_from_id(ExtendedId(1752286)),
      [match_only_extended |-> TRUE, id |-> StandardId(21)] }
SampleMaskConfigs ==
    { MaskConfig_from_id(StandardId(STANDARD_MAX)),
      [match_id_type |-> TRUE, id |-> ExtendedId(EXTENDED_MAX)] }

\* The filters configured: two that share a control register and the last.
SampleFilters == {0, 1, 31}

\* The receive FIFOs filters are pointed at.
SampleTargets == {1, 31}

\* configure_filter issues 3 transfers.
MaxFailAtFilter == 3

\* The application holds a filter and a mask and configures filters with
\* them, any number of times, each time for a filter and a target FIFO.
InitFilter ==
    /\ call = NoCall
    /\ result = NoValue
    /\ frame = NoFrame
    /\ header = NoValue
    /\ rxframe = NoValue
    /\ cfg \in [filter : SampleFilterConfigs, mask : SampleMaskConfigs]
    /\ bus = <<>>
    /\ chip = NoFilters

DoConfigureFilter ==
    \E M \in SampleFilters, RXFIFO \in SampleTargets, fail \in 0 .. MaxFailAtFilter :
        LET c == configure_filter(Ctx(chip, fail), M, RXFIFO, cfg.filter, cfg.mask)
        IN /\ call' = [name |-> "configure_filter", M |-> M, RXFIFO |-> RXFIFO,
                       fail |-> fail]
           /\ result' = c.done
           /\ bus' = c.bus
           /\ chip' = c.chip
           /\ UNCHANGED <<frame, header, rxframe, cfg>>

NextFilter ==
    \/ DoConfigureFilter

SpecFilter == InitFilter /\ [][NextFilter]_vars

-----------------------------------------------------------------------------
(* transmit (lib.rs) and the chip's side of a transmit FIFO.               *)

Bit(b) == IF b THEN 1 ELSE 0

\* TransmitMessageObjectHeader::into_bytes: the fields packed in declaration
\* order from the least significant bit, little-endian: dlc (4 bits), ide,
\* rtr, brs, fdf, esi, seq (23 bits), then sid (11), eid (18), sid11.
into_bytes(h) ==
    LET id_word == h.sid + Pow2(11) * h.eid + Pow2(29) * Bit(h.sid11)
    IN << h.dlc + 16 * Bit(h.ide) + 32 * Bit(h.rtr) + 64 * Bit(h.brs)
              + 128 * Bit(h.fdf),
          Bit(h.esi) + 2 * (h.seq % 128),
          (h.seq \div 128) % 256,
          (h.seq \div 32768) % 256,
          id_word % 256,
          (id_word \div 256) % 256,
          (id_word \div 65536) % 256,
          id_word \div Pow2(24) >>

\* size_of::<TransmitMessageObjectHeader>(): a 64-bit bitfield.
HeaderSize == 8

\* The transmit FIFOs of the model hold TxDepth message objects.
TxDepth == 2

\* The FIFO indices transmit is tried with.
SampleTxFifos == {1, 31}

\* How the application configured the transmit FIFOs (payload-size class 7:
\* 64 bytes).
TxFIFOConfig ==
    [size |-> TxDepth, payload_size |-> 7, transmit |-> TRUE, tx_attempts |-> 3,
     priority |-> 0]

\* The FIFO control register of a FIFO after configure_fifo with TxFIFOConfig.
TxFifoControl ==
    configure_fifo(Ctx([fifocon |-> [m \in FIFOs |-> FIFOControlNew]], 0), 1,
                   TxFIFOConfig, TRUE).chip.fifocon[1]

\* A message object in RAM: header and payload as written (<<>>: not yet).
EmptyObject == [header |-> <<>>, data |-> <<>>]

\* A transmit FIFO on the chip: the objects queued for the bus, the index of
\* the object at the head (where the next message is to be written), and
\* what the driver has written there so far.
EmptyTxFifo == [queue |-> <<>>, head |-> 0, ram |-> EmptyObject]

\* The room of a message object in RAM: header and 64 bytes of payload.
TxObjectSize == HeaderSize + 64

\* The configured FIFOs lie in RAM one after the other, in index order.
TxBase(M) == TxDepth * TxObjectSize * Cardinality({ m \in SampleTxFifos : m < M })

\* What the chip answers to a read of FIFOStatus<M>: the FIFO is not full.
FIFOStatusOf(ch, M) == [tfnrfnif |-> Len(ch.tx[M].queue) < TxDepth]

\* What the chip answers to a read of FIFOUserAddress<M>: the FIFO head.
FIFOUserAddressOf(ch, M) == [fifoua |-> TxBase(M) + ch.tx[M].head * TxObjectSize]

\* What the chip answers to a read of FIFOControl<M>: TXREQ stays set while
\* messages are queued.
FIFOControlOf(ch, M) == [TxFifoControl EXCEPT !.txreq = ch.tx[M].queue # <<>>]

\* The chip on a write of FIFOControl<M> with UINC set: the object at the head
\* is queued and the head moves on.
ChipTxIncrement(ch, M) ==
    [ch EXCEPT !.tx[M] = [queue |-> Append(@.queue, @.ram),
                          head |-> (@.head + 1) % TxDepth,
                          ram |-> EmptyObject]]

\* A plausible slip of transmit: the status register is read but its
\* not-full flag is not looked at.
transmit_ignoring_status(c, M, f) ==
    LET c1 == read_register(c, ADDR_FIFOStatus(M), FIFOStatusOf(c.chip, M))
        components == as_components(f)
    IN IF ~Live(c1) THEN c1
       ELSE IF components.tag = "Panic" THEN Return(c1, components)
       ELSE
       LET tx_header == components.value.header
           c2 == read_register(c1, ADDR_FIFOUserAddress(M),
                               FIFOUserAddressOf(c1.chip, M))
           tx_addr == FIFOUserAddressOf(c1.chip, M).fifoua
           c3 == write_bytes(c2, tx_addr, into_bytes(tx_header),
                             [c2.chip EXCEPT !.tx[M].ram.header = into_bytes(tx_header)])
           c4 == write_bytes(c3, tx_addr + HeaderSize, components.value.data,
                             [c3.chip EXCEPT !.tx[M].ram.data = components.value.data])
           c5 == read_register(c4, ADDR_FIFOControl(M), FIFOControlOf(c4.chip, M))
           tx_control == [FIFOControlOf(c4.chip, M) EXCEPT !.uinc = TRUE, !.txreq = TRUE]
           c6 == write_register(c5, ADDR_FIFOControl(M), tx_control,
                                ChipTxIncrement(c5.chip, M))
       IN Return(c6, Ok(Unit))

\* A plausible slip of transmit: the user address is read but the message is
\* written where the FIFO starts, as if the address never moved.
transmit_at_fifo_start(c, M, f) ==
    LET c1 == read_register(c, ADDR_FIFOStatus(M), FIFOStatusOf(c.chip, M))
        tx_status == FIFOStatusOf(c.chip, M)
        components == as_components(f)
    IN IF ~Live(c1) THEN c1
       ELSE IF ~tx_status.tfnrfnif
       THEN Return(c1, ControllerError("No room in TX FIFO!"))
       ELSE IF components.tag = "Panic" THEN Return(c1, components)
       ELSE
       LET tx_header == components.value.header
           c2 == read_register(c1, ADDR_FIFOUserAddress(M),
                               FIFOUserAddressOf(c1.chip, M))
           tx_addr == TxBase(M)
           c3 == write_bytes(c2, tx_addr, into_bytes(tx_header),
                             [c2.chip EXCEPT !.tx[M].ram.header = into_bytes(tx_header)])
           c4 == write_bytes(c3, tx_addr + HeaderSize, components.value.data,
                             [c3.chip EXCEPT !.tx[M].ram.data = components.value.data])
           c5 == read_register(c4, ADDR_FIFOControl(M), FIFOControlOf(c4.chip, M))
           tx_control == [FIFOControlOf(c4.chip, M) EXCEPT !.uinc = TRUE, !.txreq = TRUE]
           c6 == write_register(c5, ADDR_FIFOControl(M), tx_control,
                                ChipTxIncrement(c5.chip, M))
       IN Return(c6, Ok(Unit))

\* MCP25xxFD::transmit::<M>.
transmit(c, M, f) ==
    LET c1 == read_register(c, ADDR_FIFOStatus(M), FIFOStatusOf(c.chip, M))
        tx_status == FIFOStatusOf(c.chip, M)
        components == as_components(f)
    IN IF ~Live(c1) THEN c1
       ELSE IF ~tx_status.tfnrfnif
       THEN Return(c1, ControllerError("No room in TX FIFO!"))
       ELSE IF components.tag = "Panic" THEN Return(c1, components)
       ELSE
       LET tx_header == components.value.header
           c2 == read_register(c1, ADDR_FIFOUserAddress(M),
                               FIFOUserAddressOf(c1.chip, M))
           tx_addr == FIFOUserAddressOf(c1.chip, M).fifoua
           c3 == write_bytes(c2, tx_addr, into_bytes(tx_header),
                             [c2.chip EXCEPT !.tx[M].ram.header = into_bytes(tx_header)])
           c4 == write_bytes(c3, tx_addr + HeaderSize, components.value.data,
                             [c3.chip EXCEPT !.tx[M].ram.data = components.value.data])
           c5 == read_register(c4, ADDR_FIFOControl(M), FIFOControlOf(c4.chip, M))
           tx_control == [FIFOControlOf(c4.chip, M) EXCEPT !.uinc = TRUE, !.txreq = TRUE]
           c6 == write_register(c5, ADDR_FIFOControl(M), tx_control,
                                ChipTxIncrement(c5.chip, M))
       IN Return(c6, Ok(Unit))

\* The frames transmit is tried with: a standard and an extended identifier,
\* payloads short of, at and between the DLC byte counts, and a sequence
\* number within and beyond its field.
SampleTxFrames ==
    { with_sequence_number(FrameNew(id, Slice(len)).value, seq) :
        id \in {StandardId(21), ExtendedId(1752286)},
        len \in {0, 3, 8, 12, 64},
        seq \in {0, Pow2(23)} }

\* transmit issues at most MaxFailAtTx transfers.
MaxFailAtTx == 6

\* The application holds one frame and transmits it, any number of times, on
\* the configured FIFOs, whose messages the chip sends when the bus allows.
InitTx ==
    /\ call = NoCall
    /\ result = NoValue
    /\ frame \in SampleTxFrames
    /\ header = NoValue
    /\ rxframe = NoValue
    /\ cfg = TxFIFOConfig
    /\ bus = <<>>
    /\ chip = [tx |-> [M \in SampleTxFifos |-> EmptyTxFifo]]

DoTransmit ==
    \E M \in SampleTxFifos, fail \in 0 .. MaxFailAtTx :
        LET c == transmit(Ctx(chip, fail), M, frame)
        IN /\ call' = [name |-> "transmit", M |-> M, fail |-> fail]
           /\ result' = c.done
           /\ bus' = c.bus
           /\ chip' = c.chip
           /\ UNCHANGED <<frame, header, rxframe, cfg>>

\* The chip sends the oldest message of a transmit FIFO on the CAN bus.
ChipSends ==
    \E M \in SampleTxFifos :
        /\ chip.tx[M].queue # <<>>
        /\ chip' = [chip EXCEPT !.tx[M].queue = Tail(@)]
        /\ call' = [name |-> "chip sends", M |-> M]
        /\ result' = NoValue
        /\ bus' = <<>>
        /\ UNCHANGED <<frame, header, rxframe, cfg>>

NextTx ==
    \/ DoTransmit
    \/ ChipSends

SpecTx == InitTx /\ [][NextTx]_vars

-----------------------------------------------------------------------------
(* receive (lib.rs) and the chip's side of the receive FIFOs.              *)

\* ReceiveMessageObjectHeader::from_bytes: dlc (4 bits), ide, rtr, brs, fdf,
\* esi, 2 bits skipped, filthit (5), 16 bits skipped, then sid (11), eid (18),
\* sid11 and 2 bits skipped.
from_bytes(bs) ==
    LET id_word == bs[5] + 256 * bs[6] + 65536 * bs[7] + Pow2(24) * (bs[8] % 64)
    IN [dlc |-> bs[1] % 16,
        ide |-> (bs[1] \div 16) % 2 = 1,
        rtr |-> (bs[1] \div 32) % 2 = 1,
        brs |-> (bs[1] \div 64) % 2 = 1,
        fdf |-> (bs[1] \div 128) % 2 = 1,
        esi |-> bs[2] % 2 = 1,
        filthit |-> (bs[2] \div 8) % 32,
        sid |-> id_word % Pow2(11),
        eid |-> (id_word \div Pow2(11)) % Pow2(18),
        sid11 |-> (id_word \div Pow2(29)) % 2 = 1]

\* The chip's side of that layout: the 8 bytes it stores for a header.
RxHeaderBytes(h) ==
    LET id_word == h.sid + Pow2(11) * h.eid + Pow2(29) * Bit(h.sid11)
    IN << h.dlc + 16 * Bit(h.ide) + 32 * Bit(h.rtr) + 64 * Bit(h.brs)
              + 128 * Bit(h.fdf),
          Bit(h.esi) + 8 * h.filthit,
          0,
          0,
          id_word % 256,
          (id_word \div 256) % 256,
          (id_word \div 65536) % 256,
          id_word \div Pow2(24) >>

\* A message object as the chip stores it in a receive FIFO.
RxObject(h, payload) == [header |-> RxHeaderBytes(h), data |-> Buffer(payload)]

RxHeader(sid, eid, dlc) ==
    [dlc |-> dlc, ide |-> (eid # 0), rtr |-> FALSE, brs |-> (dlc > 8),
     fdf |-> (dlc > 8), esi |-> FALSE, filthit |-> 0, sid |-> sid, eid |-> eid,
     sid11 |-> FALSE]

\* The messages the chip receives: one with a standard identifier and one
\* with an extended identifier.
SampleRxObjects ==
    { RxObject(RxHeader(21, 0, 3), Slice(3)),
      RxObject(RxHeader(1246, 855, 9), Slice(12)) }

\* The FIFOs configured for receiving.
SampleRxFifos == {2, 5, 31}

\* How the application configured the receive FIFOs: one message object
\* each, of payload-size class 7 (64 bytes).
RxFIFOConfig ==
    [size |-> 1, payload_size |-> 7, transmit |-> FALSE, tx_attempts |-> 0,
     priority |-> 0]

\* The receive FIFOs hold as many message objects as they were configured
\* to hold.
RxDepth == RxFIFOConfig.size

\* The FIFO control register of a FIFO after configure_fifo with RxFIFOConfig.
RxFifoControl ==
    configure_fifo(Ctx([fifocon |-> [m \in FIFOs |-> FIFOControlNew]], 0), 1,
                   RxFIFOConfig, TRUE).chip.fifocon[1]

\* A receive FIFO on the chip: the objects received and not yet consumed,
\* and the index of the object at the tail (the next to be read).
EmptyRxFifo == [queue |-> <<>>, tail |-> 0]

RxObjectSize == HeaderSize + 64

RxBase(M) == RxDepth * RxObjectSize * Cardinality({ m \in SampleRxFifos : m < M })

\* The bytes of payload a message object of a payload-size class holds.
PayloadSize_bytes(payload_size) ==
    CASE payload_size = 0 -> 8
      [] payload_size = 1 -> 12
      [] payload_size = 2 -> 16
      [] payload_size = 3 -> 20
      [] payload_size = 4 -> 24
      [] payload_size = 5 -> 32
      [] payload_size = 6 -> 48
      [] payload_size = 7 -> 64

\* The bytes of RAM the FIFOs of lower index than M take, where fifos gives
\* the configuration of each FIFO in use: fifo.size message objects of a
\* header and the payload of the FIFO's class.
RECURSIVE RxRoomBelow(_, _)
RxRoomBelow(fifos, M) ==
    IF M <= 1 THEN 0
    ELSE RxRoomBelow(fifos, M - 1)
           + (IF M - 1 \in DOMAIN fifos
              THEN fifos[M - 1].size
                     * (HeaderSize + PayloadSize_bytes(fifos[M - 1].payload_size))
              ELSE 0)

\* Where the chip keeps the receive FIFOs in its RAM: the FIFOs follow one
\* another in the order of their indices from the offset start on.
RxLayout(fifos, start) ==
    [M \in DOMAIN fifos |->
        [base |-> start + RxRoomBelow(fifos, M),
         object_size |-> HeaderSize + PayloadSize_bytes(fifos[M].payload_size),
         depth |-> fifos[M].size]]

\* The interrupt enables as reset_and_apply_config leaves them.
InterruptEnables == apply_bit_timing(Ctx(PowerOnChip, 0),
                        get_config([arbitration |-> "Rate500K", data |-> "Rate2M"],
                                   "Clock40MHz").value).chip.regs.intr

\* What the chip answers to a read of Interrupts: RXIF is the 'or' of the
\* receive FIFOs' not-empty interrupts; SERRIF, CERRIF and IVMIF are latched
\* until cleared.
InterruptsOf(ch) ==
    [txif |-> FALSE,
     rxif |-> \E M \in SampleRxFifos : ch.rx[M].queue # <<>>,
     serrif |-> ch.serrif,
     cerrif |-> ch.cerrif,
     ivmif |-> ch.ivmif,
     txie |-> ch.intr.txie, rxie |-> ch.intr.rxie, cerrie |-> ch.intr.cerrie]

\* The chip on a write of Interrupts: a flag is cleared by writing 0 and is
\* not set by writing 1; RXIF is read-only.
ChipWriteInterrupts(ch, value) ==
    [ch EXCEPT !.serrif = @ /\ value.serrif,
               !.cerrif = @ /\ value.cerrif,
               !.ivmif = @ /\ value.ivmif,
               !.intr = [txie |-> value.txie, rxie |-> value.rxie,
                         cerrie |-> value.cerrie]]

\* The chip goes on while the driver is between two transfers: a flag the
\* chip is about to raise (SERRIF, IVMIF) is raised.
Meanwhile(c) ==
    [c EXCEPT !.chip = [@ EXCEPT !.serrif = @ \/ "serrif" \in c.chip.raising,
                                 !.ivmif = @ \/ "ivmif" \in c.chip.raising,
                                 !.raising = {}]]

\* What the chip answers to a read of ReceiveInterruptStatus: the bitmap
\* RFIF, as the set of the indices whose bit is set.
ReceiveInterruptStatusOf(ch) ==
    [rfif |-> { M \in SampleRxFifos : ch.rx[M].queue # <<>> }]

\* ReceiveInterruptStatus::fifo<i>(): bit i of the bitmap.
fifo_bit(rx_interrupts, i) == i \in rx_interrupts.rfif

\* What the chip answers to a read of FIFOUserAddress<M>: the offset in RAM
\* of the message object at the tail of the FIFO.
RxFIFOUserAddressOf(ch, M) ==
    [fifoua |-> ch.layout[M].base + ch.rx[M].tail * ch.layout[M].object_size]

\* The object at the tail of a receive FIFO (zeroes when there is none).
RxTailObject(ch, M) ==
    IF ch.rx[M].queue # <<>> THEN Head(ch.rx[M].queue)
    ELSE [header |-> [i \in 1 .. HeaderSize |-> 0], data |-> Buffer(<<>>)]

\* The message object the chip's RAM holds at an offset: the objects of
\* FIFO M lie in its slots from the tail on, in the order they were received
\* (zeroes where there is none).
RxObjectAt(ch, M, address) ==
    LET l == ch.layout[M]
        slot == (address - l.base) \div l.object_size
        nth == ((slot + l.depth - ch.rx[M].tail) % l.depth) + 1
    IN IF /\ address >= l.base
          /\ address < l.base + l.depth * l.object_size
          /\ nth <= Len(ch.rx[M].queue)
       THEN ch.rx[M].queue[nth]
       ELSE [header |-> [i \in 1 .. HeaderSize |-> 0], data |-> Buffer(<<>>)]

\* The chip on a write of FIFOControl<M> with UINC set: the object at the tail
\* is consumed and the tail moves on.
ChipRxIncrement(ch, M) ==
    [ch EXCEPT !.rx[M] = [queue |-> IF @.queue # <<>> THEN Tail(@.queue) ELSE <<>>,
                          tail |-> (@.tail + 1) % ch.layout[M].depth]]

\* The state of a call together with the value of an expression in it.
With(c, value) == [c |-> c, value |-> value]

\* A plausible slip of get_rx_frame: the control register is written back
\* as it was read, without UINC, so the FIFO does not advance.
get_rx_frame_without_uinc(c, M, overflow_checks) ==
    LET c1 == read_register(c, ADDR_FIFOUserAddress(M), RxFIFOUserAddressOf(c.chip, M))
        rx_addr == RxFIFOUserAddressOf(c.chip, M).fifoua
        object == RxObjectAt(c.chip, M, rx_addr)
        c2 == read_bytes(c1, HeaderSize, rx_addr, object.header)
        rx_header == from_bytes(object.header)
        c3 == read_bytes(c2, 64, rx_addr + HeaderSize, object.data)
        rx_frame == from_rx_message(rx_header, object.data, overflow_checks)
    IN IF ~Live(c3) THEN With(c3, None)
       ELSE IF rx_frame.tag = "Panic" THEN With(Return(c3, rx_frame), None)
       ELSE
       LET c4 == read_register(c3, ADDR_FIFOControl(M), RxFifoControl)
           c5 == write_register(c4, ADDR_FIFOControl(M), RxFifoControl, c4.chip)
       IN With(c5, Some(<<M, rx_frame.value>>))

\* A plausible slip of get_rx_frame: the message is read at the start of the
\* FIFO instead of at the address the chip reports.
get_rx_frame_at_fifo_start(c, M, overflow_checks) ==
    LET c1 == read_register(c, ADDR_FIFOUserAddress(M), RxFIFOUserAddressOf(c.chip, M))
        rx_addr == c.chip.layout[M].base
        object == RxObjectAt(c.chip, M, rx_addr)
        c2 == read_bytes(c1, HeaderSize, rx_addr, object.header)
        rx_header == from_bytes(object.header)
        c3 == read_bytes(c2, 64, rx_addr + HeaderSize, object.data)
        rx_frame == from_rx_message(rx_header, object.data, overflow_checks)
    IN IF ~Live(c3) THEN With(c3, None)
       ELSE IF rx_frame.tag = "Panic" THEN With(Return(c3, rx_frame), None)
       ELSE
       LET c4 == read_register(c3, ADDR_FIFOControl(M), RxFifoControl)
           rx_control == [RxFifoControl EXCEPT !.uinc = TRUE]
           c5 == write_register(c4, ADDR_FIFOControl(M), rx_control,
                                ChipRxIncrement(c4.chip, M))
       IN With(c5, Some(<<M, rx_frame.value>>))

\* MCP25xxFD::get_rx_frame::<M>.
get_rx_frame(c, M, overflow_checks) ==
    LET c1 == read_register(c, ADDR_FIFOUserAddress(M), RxFIFOUserAddressOf(c.chip, M))
        rx_addr == RxFIFOUserAddressOf(c.chip, M).fifoua
        object == RxObjectAt(c.chip, M, rx_addr)
        c2 == read_bytes(c1, HeaderSize, rx_addr, object.header)
        rx_header == from_bytes(object.header)
        c3 == read_bytes(c2, 64, rx_addr + HeaderSize, object.data)
        rx_frame == from_rx_message(rx_header, object.data, overflow_checks)
    IN IF ~Live(c3) THEN With(c3, None)
       ELSE IF rx_frame.tag = "Panic" THEN With(Return(c3, rx_frame), None)
       ELSE
       LET c4 == read_register(c3, ADDR_FIFOControl(M), RxFifoControl)
           rx_control == [RxFifoControl EXCEPT !.uinc = TRUE]
           c5 == write_register(c4, ADDR_FIFOControl(M), rx_control,
                                ChipRxIncrement(c4.chip, M))
       IN With(c5, Some(<<M, rx_frame.value>>))

\* MCP25xxFD::receive_first_fifo: one arm for each of the FIFOs 1 .. 31.
receive_first_fifo(c, fifo, rx_interrupts, overflow_checks) ==
    IF fifo \in 1 .. 31 /\ fifo_bit(rx_interrupts, fifo)
    THEN get_rx_frame(c, fifo, overflow_checks)
    ELSE With(c, None)

\* Option::unwrap_or.
unwrap_or(option, default) == IF option = None THEN default ELSE option.value

\* The loop of receive: for i in 1..=31, with `?` leaving it.
RECURSIVE receive_scan(_, _, _, _, _, _)
receive_scan(c, i, rx_frame, rx_interrupts, fifo_restriction, overflow_checks) ==
    IF i > 31 \/ ~Live(c) THEN Return(c, Ok(rx_frame))
    ELSE IF rx_frame = None /\ unwrap_or(fifo_restriction, i) = i
    THEN LET r == receive_first_fifo(c, i, rx_interrupts, overflow_checks)
         IN receive_scan(r.c, i + 1, r.value, rx_interrupts, fifo_restriction,
                         overflow_checks)
    ELSE receive_scan(c, i + 1, rx_frame, rx_interrupts, fifo_restriction,
                      overflow_checks)

\* The first arm of receive: the bus error is cleared and reported.
receive_bus_error(c, interrupts) ==
    LET cleared == [interrupts EXCEPT !.cerrif = FALSE]
        c1 == write_register(c, ADDR_Interrupts, cleared,
                             ChipWriteInterrupts(c.chip, cleared))
    IN Return(c1, ControllerError("CAN Bus error!"))

\* A plausible slip of the second arm: the caller's restriction is dropped.
receive_pending_unrestricted(c, fifo_restriction, overflow_checks) ==
    LET c1 == read_register(c, ADDR_ReceiveInterruptStatus,
                            ReceiveInterruptStatusOf(c.chip))
    IN receive_scan(c1, 1, None, ReceiveInterruptStatusOf(c.chip), None,
                    overflow_checks)

\* The second arm of receive: the bitmap is read and the FIFOs are scanned.
receive_pending(c, fifo_restriction, overflow_checks) ==
    LET c1 == read_register(c, ADDR_ReceiveInterruptStatus,
                            ReceiveInterruptStatusOf(c.chip))
    IN receive_scan(c1, 1, None, ReceiveInterruptStatusOf(c.chip), fifo_restriction,
                    overflow_checks)

\* A plausible slip of receive: the receive flag is looked at first.
receive_rx_first(c, fifo_restriction, overflow_checks) ==
    LET c1 == read_register(c, ADDR_Interrupts, InterruptsOf(c.chip))
        interrupts == InterruptsOf(c.chip)
    IN IF ~Live(c1) THEN c1
       ELSE IF interrupts.rxif
       THEN receive_pending(c1, fifo_restriction, overflow_checks)
       ELSE IF interrupts.cerrif THEN receive_bus_error(c1, interrupts)
       ELSE Return(c1, Ok(None))

\* Another: the bitmap is read whether the receive flag is set or not.
receive_always_scanning(c, fifo_restriction, overflow_checks) ==
    LET c1 == read_register(c, ADDR_Interrupts, InterruptsOf(c.chip))
        interrupts == InterruptsOf(c.chip)
    IN IF ~Live(c1) THEN c1
       ELSE IF interrupts.cerrif THEN receive_bus_error(c1, interrupts)
       ELSE receive_pending(c1, fifo_restriction, overflow_checks)

\* MCP25xxFD::receive.
receive(c, fifo_restriction, overflow_checks) ==
    LET c1 == Meanwhile(read_register(c, ADDR_Interrupts, InterruptsOf(c.chip)))
        interrupts == InterruptsOf(c.chip)
    IN IF ~Live(c1) THEN c1
       ELSE IF interrupts.cerrif THEN receive_bus_error(c1, interrupts)
       ELSE IF interrupts.rxif
       THEN receive_pending(c1, fifo_restriction, overflow_checks)
       ELSE Return(c1, Ok(None))

\* The restrictions receive is tried with: none, two of the receive FIFOs,
\* and an index that is no FIFO's.
SampleRestrictions == {None, Some(0), Some(5), Some(31)}

\* At most MaxPending messages wait in the receive FIFOs.
MaxPending == 2

Pending(ch) ==
    LET n(M) == Len(ch.rx[M].queue)
    IN n(2) + n(5) + n(31)

\* The controller is set up and its receive FIFOs are configured; messages
\* arrive and bus errors happen, and the application polls with receive.
InitRx ==
    /\ call = NoCall
    /\ result = NoValue
    /\ frame = NoFrame
    /\ header = NoValue
    /\ rxframe = NoValue
    /\ cfg = RxFIFOConfig
    /\ bus = <<>>
    /\ chip = [serrif |-> FALSE, cerrif |-> FALSE, ivmif |-> FALSE,
               raising |-> {}, intr |-> InterruptEnables,
               rx |-> [M \in SampleRxFifos |-> EmptyRxFifo],
               layout |-> RxLayout([M \in SampleRxFifos |-> RxFIFOConfig], 0)]

DoReceive ==
    \E fifo_restriction \in SampleRestrictions, fail \in 0 .. MaxFailAt,
       overflow_checks \in BOOLEAN :
        LET c == receive(Ctx(chip, fail), fifo_restriction, overflow_checks)
        IN /\ call' = [name |-> "receive", fifo_restriction |-> fifo_restriction,
                       fail |-> fail, overflow_checks |-> overflow_checks]
           /\ result' = c.done
           /\ bus' = c.bus
           /\ chip' = c.chip
           /\ UNCHANGED <<frame, header, rxframe, cfg>>

\* A message from the CAN bus is stored in a receive FIFO that has room.
ChipReceives ==
    \E M \in SampleRxFifos, object \in SampleRxObjects :
        /\ Pending(chip) < MaxPending
        /\ Len(chip.rx[M].queue) < chip.layout[M].depth
        /\ bytes(from_bytes(object.header).dlc)
              <= chip.layout[M].object_size - HeaderSize
        /\ chip' = [chip EXCEPT !.rx[M].queue = Append(@, object)]
        /\ call' = [name |-> "chip receives", M |-> M]
        /\ result' = NoValue
        /\ bus' = <<>>
        /\ UNCHANGED <<frame, header, rxframe, cfg>>

\* The chip detects an error on the CAN bus and latches CERRIF.
ChipBusError ==
    /\ ~chip.cerrif
    /\ chip' = [chip EXCEPT !.cerrif = TRUE]
    /\ call' = [name |-> "chip bus error"]
    /\ result' = NoValue
    /\ bus' = <<>>
    /\ UNCHANGED <<frame, header, rxframe, cfg>>

NextRx ==
    \/ DoReceive
    \/ ChipReceives
    \/ ChipBusError

SpecRx == InitRx /\ [][NextRx]_vars

\* The configurations the last receive FIFO is tried with: two message
\* objects of a middle payload-size class (32 bytes).
SampleRxFIFOConfigs ==
    { [RxFIFOConfig EXCEPT !.size = 2, !.payload_size = payload_size] :
        payload_size \in {5} }

\* The receive FIFOs when the last of them has the configuration fifo.
RxFIFOConfigs(fifo) ==
    [M \in SampleRxFifos |-> IF M = 31 THEN fifo ELSE RxFIFOConfig]

\* As InitRx, with the last receive FIFO in each of the sample
\* configurations, and the receive FIFOs being the last thing in the RAM.
InitRam ==
    /\ call = NoCall
    /\ result = NoValue
    /\ frame = NoFrame
    /\ header = NoValue
    /\ rxframe = NoValue
    /\ cfg \in SampleRxFIFOConfigs
    /\ bus = <<>>
    /\ chip = [serrif |-> FALSE, cerrif |-> FALSE, ivmif |-> FALSE,
               raising |-> {}, intr |-> InterruptEnables,
               rx |-> [M \in SampleRxFifos |-> EmptyRxFifo],
               layout |-> RxLayout(RxFIFOConfigs(cfg),
                                   RAM_SIZE - RxRoomBelow(RxFIFOConfigs(cfg), 32))]

SpecRam == InitRam /\ [][NextRx]_vars

\* The flags of Interrupts, besides CERRIF, that the chip raises on its own
\* and the application clears: system error and invalid message.
SampleFlags_raised == {"serrif", "ivmif"}

\* The chip detects a system error or an invalid message: it is about to
\* raise the flag.
ChipDetects ==
    \E flag \in SampleFlags_raised :
        /\ flag \notin chip.raising
        /\ ~chip[flag]
        /\ chip' = [chip EXCEPT !.raising = @ \cup {flag}]
        /\ call' = [name |-> "chip detects", flag |-> flag]
        /\ result' = NoValue
        /\ bus' = <<>>
        /\ UNCHANGED <<frame, header, rxframe, cfg>>

\* The chip raises the flags it was about to raise while the driver is idle.
ChipRaises ==
    /\ chip.raising # {}
    /\ chip' = Meanwhile(Ctx(chip, 0)).chip
    /\ call' = [name |-> "chip raises"]
    /\ result' = NoValue
    /\ bus' = <<>>
    /\ UNCHANGED <<frame, header, rxframe, cfg>>

\* Polling with receive while the chip raises bus errors and other flags
\* at any time, between two transfers of a call included.
NextInterrupts ==
    \/ DoReceive
    \/ ChipBusError
    \/ ChipDetects
    \/ ChipRaises

SpecInterrupts == InitRx /\ [][NextInterrupts]_vars

-----------------------------------------------------------------------------
(* The chip, as far as the codec is concerned: untouched.                  *)

NoChip == [tag |-> "none"]

-----------------------------------------------------------------------------
(* The frame codec as a state machine: frames are built through the public *)
(* API, encoded, and the encoding is decoded again.                        *)

InitFrame ==
    /\ call = NoCall
    /\ result = NoValue
    /\ frame = NoFrame
    /\ header = NoValue
    /\ rxframe = NoValue
    /\ cfg = NoValue
    /\ bus = <<>>
    /\ chip = NoChip

\* A frame is a value object: each run of the codec builds one frame, and a
\* later Frame::new does not depend on an earlier one.
DoFrameNew ==
    \E id \in SampleIds, len \in 0 .. MaxLen :
        /\ frame = NoFrame
        /\ call' = [name |-> "Frame::new", id |-> id, len |-> len]
        /\ result' = FrameNew(id, Slice(len))
        /\ frame' = IF result'.tag = "Some" THEN result'.value ELSE NoFrame
        /\ header' = NoValue
        /\ rxframe' = NoValue
        /\ UNCHANGED <<cfg, bus, chip>>

DoWithDlc ==
    \E dlc \in DataLengthCode :
        /\ frame # NoFrame
        /\ call' = [name |-> "with_dlc", dlc |-> dlc]
        /\ frame' = with_dlc(frame, dlc)
        /\ result' = Some(frame')
        /\ header' = NoValue
        /\ rxframe' = NoValue
        /\ UNCHANGED <<cfg, bus, chip>>

DoWithSequenceNumber ==
    \E seq \in SampleSeqs :
        /\ frame # NoFrame
        /\ call' = [name |-> "with_sequence_number", seq |-> seq]
        /\ frame' = with_sequence_number(frame, seq)
        /\ result' = Some(frame')
        /\ header' = NoValue
        /\ rxframe' = NoValue
        /\ UNCHANGED <<cfg, bus, chip>>

DoAsComponents ==
    /\ frame # NoFrame
    /\ call' = [name |-> "as_components"]
    /\ header' = as_components(frame)
    /\ result' = header'
    /\ rxframe' = NoValue
    /\ UNCHANGED <<frame, cfg, bus, chip>>

\* Decoding what as_components produced: the chip stores the header fields
\* and the payload, and the driver reads back a 64-byte buffer.
DoFromRxMessage ==
    \E overflow_checks \in BOOLEAN :
        /\ header # NoValue
        /\ header.tag = "Ok"
        /\ call' = [name |-> "from_rx_message", overflow_checks |-> overflow_checks]
        /\ rxframe' = from_rx_message(RxHeaderOf(header.value.header),
                                      Buffer(header.value.data), overflow_checks)
        /\ result' = rxframe'
        /\ UNCHANGED <<frame, header, cfg, bus, chip>>

NextFrame ==
    \/ DoFrameNew
    \/ DoWithDlc
    \/ DoWithSequenceNumber
    \/ DoAsComponents
    \/ DoFromRxMessage

SpecFrame == InitFrame /\ [][NextFrame]_vars

-----------------------------------------------------------------------------
(* The register and memory accesses of the driver (lib.rs), called one at  *)
(* a time. The chip's answers are not looked at here, so the chip is left  *)
(* out; an access depends on nothing an earlier one did, so one access     *)
(* from each starting point gives every state a sequence of them gives.    *)

\* Addresses on the wire have 12 bits.
ADDRESS_MAX == 4095

\* The byte counts read_bytes and write_bytes are tried with.
MaxBytes == 9

\* An access is one transfer.
MaxFailAtAccess == 1

InitAccess ==
    /\ call = NoCall
    /\ result = NoValue
    /\ frame = NoFrame
    /\ header = NoValue
    /\ rxframe = NoValue
    /\ cfg \in [address : 0 .. ADDRESS_MAX]
    /\ bus = <<>>
    /\ chip = NoChip

Accessed(c) ==
    /\ result' = IF Live(c) THEN Ok(Unit) ELSE c.done
    /\ bus' = c.bus
    /\ chip' = c.chip
    /\ UNCHANGED <<frame, header, rxframe, cfg>>

DoReset ==
    \E fail \in 0 .. MaxFailAtAccess :
        /\ call = NoCall
        /\ call' = [name |-> "reset", fail |-> fail]
        /\ Accessed(reset(Ctx(chip, fail), chip))

DoReadRegister ==
    \E fail \in 0 .. MaxFailAtAccess :
        /\ call = NoCall
        /\ call' = [name |-> "read_register", fail |-> fail]
        /\ Accessed(read_register(Ctx(chip, fail), cfg.address, 0))

DoWriteRegister ==
    \E fail \in 0 .. MaxFailAtAccess :
        /\ call = NoCall
        /\ call' = [name |-> "write_register", fail |-> fail]
        /\ Accessed(write_register(Ctx(chip, fail), cfg.address, 0, chip))

DoReadBytes ==
    \E B \in 0 .. MaxBytes, fail \in 0 .. MaxFailAtAccess :
        /\ call = NoCall
        /\ call' = [name |-> "read_bytes", len |-> B, fail |-> fail]
        /\ Accessed(read_bytes(Ctx(chip, fail), B, cfg.address, Slice(B)))

DoWriteBytes ==
    \E len \in 0 .. MaxBytes, fail \in 0 .. MaxFailAtAccess :
        /\ call = NoCall
        /\ call' = [name |-> "write_bytes", len |-> len, fail |-> fail]
        /\ Accessed(write_bytes(Ctx(chip, fail), cfg.address, Slice(len), chip))

NextAccess ==
    \/ DoReset
    \/ DoReadRegister
    \/ DoWriteRegister
    \/ DoReadBytes
    \/ DoWriteBytes

SpecAccess == InitAccess /\ [][NextAccess]_vars

-----------------------------------------------------------------------------
(* Claims about the frame codec.                                           *)

IsDlcByteCount(n) == \E c \in DataLengthCode : bytes(c) = n

\* C1: for every data length n in 0..64, Frame::new selects the DLC whose
\* byte count is the smallest DLC byte count >= n: a boundary length selects
\* its own DLC, a length between two byte counts rounds up to the next one.
C1_SmallestFit ==
    (call.name = "Frame::new" /\ call.len <= 64) =>
        /\ result.tag = "Some"
        /\ bytes(result.value.dlc) =
               Min({ bytes(c) : c \in { d \in DataLengthCode : bytes(d) >= call.len } })
        /\ IsDlcByteCount(call.len) => bytes(result.value.dlc) = call.len

\* A length strictly between two DLC byte counts was rounded up to 48.
C1_Witness ==
    /\ call.name = "Frame::new"
    /\ call.len = 33
    /\ result.tag = "Some"
    /\ bytes(result.value.dlc) = 48

\* C2: Frame::new with a data slice longer than 64 bytes reports failure to
\* its caller (returns None): no frame is produced.
C2_TooLongReturnsNone ==
    (call.name = "Frame::new" /\ call.len > 64) => result = None

\* C3: decoding the header fields and payload that encoding produced gives
\* back the frame's identifier (kind and value), DLC and payload bytes.
C3_RoundTrip ==
    (call.name = "from_rx_message") =>
        /\ rxframe.tag = "Ok"
        /\ rxframe.value.id = frame.id
        /\ rxframe.value.dlc = frame.dlc
        /\ data(rxframe.value) = data(frame)

-----------------------------------------------------------------------------
(* Claims about the bit-timing resolver and the setup sequence.            *)

Pairs(arbitration, datas) == { <<arbitration, d>> : d \in datas }

\* The supported (arbitration rate, data rate) pairs at 40 MHz.
Supported40 ==
    Pairs("Rate125K", {"Rate500K"})
    \cup Pairs("Rate250K", {"Rate500K", "Rate833K", "Rate1M", "Rate1M5", "Rate2M",
                             "Rate3M", "Rate4M"})
    \cup Pairs("Rate500K", {"Rate1M", "Rate2M", "Rate3M", "Rate4M", "Rate5M",
                             "Rate6M7", "Rate8M", "Rate10M"})
    \cup Pairs("Rate1000K", {"Rate4M", "Rate8M"})

\* The supported (arbitration rate, data rate) pairs at 20 MHz.
Supported20 ==
    Pairs("Rate125K", {"Rate500K"})
    \cup Pairs("Rate250K", {"Rate500K", "Rate833K", "Rate1M", "Rate1M5", "Rate2M",
                             "Rate4M"})
    \cup Pairs("Rate500K", {"Rate1M", "Rate2M", "Rate4M", "Rate5M"})
    \cup Pairs("Rate1000K", {"Rate4M"})

IsSupported(config) ==
    LET pair == <<config.bit_rate.arbitration, config.bit_rate.data>>
    IN IF config.clock = "Clock40MHz" THEN pair \in Supported40
       ELSE pair \in Supported20

\* C8: the resolver is a total function of (clock, arbitration rate, data
\* rate): it returns a configuration exactly for the supported triples and
\* failure for every other triple, the result is the value the function has
\* for that triple, and resolving puts nothing on the bus.
C8_ResolverSupportedSet ==
    (call.name = "get_config") =>
        /\ result = get_config(cfg.bit_rate, cfg.clock)
        /\ IsSupported(cfg) <=> result.tag = "Some"
        /\ ~IsSupported(cfg) <=> result = None
        /\ bus = <<>>

\* The resolver returned a configuration for 20 MHz, 1000K / 4M.
C8_Witness ==
    /\ call.name = "get_config"
    /\ cfg.clock = "Clock20MHz"
    /\ cfg.bit_rate = [arbitration |-> "Rate1000K", data |-> "Rate4M"]
    /\ result.tag = "Some"

\* C9: reset_and_apply_config with an unsupported (clock, arbitration rate,
\* data rate) triple fails, and the triple is rejected before any bus
\* traffic is issued.
C9_RejectedBeforeBusTraffic ==
    (call.name = "reset_and_apply_config" /\ ~IsSupported(cfg)) =>
        /\ result # Ok(Unit)
        /\ bus = <<>>

-----------------------------------------------------------------------------
(* Claims about configure_fifo.                                            *)

\* C10: for every FIFO depth d in 1..32, configure_fifo writes the FIFO
\* control register with FSIZE = d - 1, a value that fits the 5-bit field
\* (depth 1 is written as 0, depth 32 as 31).  The other fields of the
\* configuration are taken to be valid (a priority that fits its field).
C10_FsizeIsDepthMinusOne ==
    (call.name = "configure_fifo" /\ cfg.size \in 1 .. 32 /\ FitsB5(cfg.priority)) =>
        /\ Len(bus) = 1
        /\ bus[1].op = "write_register"
        /\ bus[1].address = ADDR_FIFOControl(call.M)
        /\ bus[1].value.fsize = cfg.size - 1
        /\ FitsB5(bus[1].value.fsize)
        /\ cfg.size = 1 => bus[1].value.fsize = 0
        /\ cfg.size = 32 => bus[1].value.fsize = 31

\* A FIFO of depth 32 was configured, and the chip took FSIZE = 31.
C10_Witness ==
    /\ call.name = "configure_fifo"
    /\ cfg.size = 32
    /\ result = Ok(Unit)
    /\ chip.fifocon[call.M].fsize = 31

-----------------------------------------------------------------------------
(* Claims about transmit.                                                  *)

\* C4: when transmit reads a FIFO status register whose not-full flag is
\* clear, it returns the FIFO-full condition at once, having issued only the
\* status-register read: no RAM write, no FIFO-control write, no retry; the
\* FIFO on the chip is as full as it was.
C4_FullFifoOnlyStatusRead ==
    (call.name = "transmit" /\ bus[1].ok /\ ~bus[1].value.tfnrfnif) =>
        /\ result = ControllerError("No room in TX FIFO!")
        /\ Len(bus) = 1
        /\ bus[1].op = "read_register"
        /\ bus[1].address = ADDR_FIFOStatus(call.M)
        /\ Len(chip.tx[call.M].queue) = TxDepth
        /\ chip.tx[call.M].ram = EmptyObject

\* transmit found FIFO 31 full and returned the FIFO-full condition.
C4_Witness ==
    /\ call.name = "transmit"
    /\ call.M = 31
    /\ bus[1].ok
    /\ ~bus[1].value.tfnrfnif
    /\ result = ControllerError("No room in TX FIFO!")

-----------------------------------------------------------------------------
(* Claims about receive.                                                   *)

\* The FIFO whose registers, or whose part of RAM, a transfer addresses.
TransferIsOfFifo(t, M) ==
    IF t.op \in {"read_register", "write_register"}
    THEN t.address \in {ADDR_FIFOControl(M), ADDR_FIFOStatus(M), ADDR_FIFOUserAddress(M)}
    ELSE /\ t.op = "read_bytes"
         /\ t.address - RAM_START >= RxBase(M)
         /\ t.address - RAM_START < RxBase(M) + RxDepth * RxObjectSize

BusError == ControllerError("CAN Bus error!")

\* The indices 1..31 whose bit is set in the bitmap the call read and that
\* the caller's restriction allows.
C5_Candidates ==
    { i \in 1 .. 31 :
        /\ i \in bus[2].value.rfif
        /\ call.fifo_restriction \in {None, Some(i)} }

\* C5: when receive sees the receive flag set and the bus-error flag clear,
\* the FIFO it reads is the smallest index i in 1..31 whose bit is set in the
\* per-FIFO bitmap and that the caller's restriction allows (none, or equal
\* to i); when there is no such index it reads no FIFO and returns nothing.
C5_LowestAllowedFifo ==
    (/\ call.name = "receive"
     /\ bus[1].ok /\ ~bus[1].value.cerrif /\ bus[1].value.rxif
     /\ bus[2].ok) =>
        /\ bus[2].op = "read_register"
        /\ bus[2].address = ADDR_ReceiveInterruptStatus
        /\ IF C5_Candidates = {}
           THEN result = Ok(None) /\ Len(bus) = 2
           ELSE /\ Len(bus) >= 3
                /\ bus[3].op = "read_register"
                /\ bus[3].address = ADDR_FIFOUserAddress(Min(C5_Candidates))
                /\ \A k \in 3 .. Len(bus) : TransferIsOfFifo(bus[k], Min(C5_Candidates))
                /\ result.tag = "Ok" =>
                       /\ result.value.tag = "Some"
                       /\ result.value.value[1] = Min(C5_Candidates)

\* With bits 5 and 31 set and FIFO 31 asked for, FIFO 31 was read although
\* the lower bit was set; the frame came back with index 31.
C5_Witness ==
    /\ call.name = "receive"
    /\ call.fifo_restriction = Some(31)
    /\ bus[1].ok /\ ~bus[1].value.cerrif /\ bus[1].value.rxif
    /\ bus[2].ok
    /\ bus[2].value.rfif = {5, 31}
    /\ result.tag = "Ok"
    /\ result.value.tag = "Some"
    /\ result.value.value[1] = 31

\* The call that observes the bus-error flag writes the interrupt register
\* back with that flag cleared and does nothing else on the bus; when the
\* write arrives, the flag is clear on the chip and the call returns the
\* controller error.
C6_ClearedAndReported ==
    (call.name = "receive" /\ bus[1].ok /\ bus[1].value.cerrif) =>
        /\ Len(bus) = 2
        /\ bus[2].op = "write_register"
        /\ bus[2].address = ADDR_Interrupts
        /\ bus[2].value = [bus[1].value EXCEPT !.cerrif = FALSE]
        /\ bus[2].ok => (result = BusError /\ ~chip.cerrif)

\* A receive that follows at once a receive that reported the bus error does
\* not report it again.
C6_NotReportedTwice ==
    (call.name = "receive" /\ result = BusError /\ call'.name = "receive") =>
        result' # BusError

\* C6: when receive observes the bus-error flag set, the bus error takes
\* priority: the same call clears the flag on the chip and returns a
\* controller error without reading any FIFO, even if the receive flag is
\* set too; an immediately following receive, with no new bus error raised
\* by the chip in between, does not report a bus error again.
C6_BusErrorPriority == []C6_ClearedAndReported /\ [][C6_NotReportedTwice]_vars

\* Both flags were set; the call cleared the bus error and reported it.
C6_Witness ==
    /\ call.name = "receive"
    /\ bus[1].ok /\ bus[1].value.cerrif /\ bus[1].value.rxif
    /\ result = BusError
    /\ ~chip.cerrif

\* C7: when receive reads an interrupt register with neither the bus-error
\* flag nor the receive flag set, it returns Ok(None) (nothing pending, not
\* an error) having issued only that one register read: no register write
\* and no RAM access.
C7_NothingPendingOneRead ==
    (call.name = "receive" /\ bus[1].ok /\ ~bus[1].value.cerrif /\ ~bus[1].value.rxif) =>
        /\ result = Ok(None)
        /\ Len(bus) = 1
        /\ bus[1].op = "read_register"
        /\ bus[1].address = ADDR_Interrupts

\* A receive found neither flag set and returned Ok(None).
C7_Witness ==
    /\ call.name = "receive"
    /\ bus[1].ok /\ ~bus[1].value.cerrif /\ ~bus[1].value.rxif
    /\ result = Ok(None)
    /\ Len(bus) = 1

-----------------------------------------------------------------------------
(* Claims about how calls end.                                             *)

\* C11: no operation is fatal: a call of transmit ends by returning a result
\* to its caller (a value or an error), it never aborts the program.
C11_NoOperationAborts ==
    call.name = "transmit" => result.tag \in {"Ok", "Err"}

\* C12: when the transport fails on a transfer of a call, the call returns
\* that failure, the transport's error value wrapped in the SPIError variant,
\* and the failed transfer is the last of the call: it is not issued again
\* and nothing follows it.
C12_TransportFailureReturned ==
    ("fail" \in DOMAIN call /\ call.fail \in 1 .. Len(bus)) =>
        /\ Len(bus) = call.fail
        /\ \A k \in 1 .. Len(bus) - 1 : bus[k].ok
        /\ ~bus[call.fail].ok
        /\ result = SPIError(bus[call.fail].error)

\* transmit whose fourth transfer, the payload write, fails on the transport.
C12_Witness ==
    /\ call.name = "transmit"
    /\ call.fail = 4
    /\ Len(bus) = 4
    /\ bus[4].op = "write_bytes"
    /\ ~bus[4].ok
    /\ result = SPIError(TransportError(4))

-----------------------------------------------------------------------------
(* Claims about the transmit header.                                       *)

\* C14: in the header as_components builds, FDF and BRS are equal, and both
\* are set exactly when the byte count of the frame's DLC is above 8.
C14_FdfAndBrsFollowDlc ==
    (call.name = "as_components" /\ header.tag = "Ok") =>
        /\ header.value.header.fdf = header.value.header.brs
        /\ header.value.header.fdf <=> (bytes(frame.dlc) > 8)

\* as_components on a frame of 12 data bytes: an FD header, FDF and BRS set.
C14_Witness ==
    /\ call.name = "as_components"
    /\ header.tag = "Ok"
    /\ bytes(frame.dlc) = 12
    /\ header.value.header.fdf
    /\ header.value.header.brs

\* C15: in the header as_components builds, IDE is set if and only if the
\* frame's identifier is an extended one, whatever its value.
C15_IdeIffExtended ==
    (call.name = "as_components" /\ header.tag = "Ok") =>
        (header.value.header.ide <=> (frame.id.kind = "Extended"))

-----------------------------------------------------------------------------
(* Claims about the register and memory accesses.                          *)

\* C13: read_bytes and write_bytes with a byte count that is not a multiple
\* of 4 are rejected by their assertion before anything is sent; with a
\* multiple of 4 they issue exactly one transaction.
C13_MultipleOfFourOrNothingSent ==
    call.name \in {"read_bytes", "write_bytes"} =>
        IF call.len % 4 # 0
        THEN /\ bus = <<>>
             /\ result = Panic(IF call.name = "read_bytes"
                               THEN "Must read in multiples of 4 data bytes"
                               ELSE "Must write in multiples of 4 data bytes")
        ELSE /\ Len(bus) = 1
             /\ bus[1].op = call.name
             /\ Len(bus[1].data) = call.len

\* write_bytes with 6 bytes: rejected with nothing on the bus.
C13_Witness ==
    /\ call.name = "write_bytes"
    /\ call.len = 6
    /\ result.tag = "Panic"
    /\ bus = <<>>

\* The opcode the claim gives for an access: 0b0011 to read, 0b0010 to write.
OpcodeOf(op) == IF op \in {"read_register", "read_bytes"} THEN 3 ELSE 2

\* C16: the command header of a read or write at a 12-bit address A is
\* byte 0 = (opcode << 4) OR (A >> 8), byte 1 = A AND 0xFF, with opcode 0b0011
\* for Read and 0b0010 for Write; the high nibble of byte 0 is the opcode,
\* untouched by the address, and the address is recovered from the rest.
C16_CommandHeader ==
    \A k \in 1 .. Len(bus) :
        (bus[k].op # "reset" /\ bus[k].address <= ADDRESS_MAX) =>
            LET opcode == OpcodeOf(bus[k].op)
                A == bus[k].address
            IN /\ Len(bus[k].header) = 2
               /\ bus[k].header[1] = BitOr(opcode * 16, A \div 256)
               /\ bus[k].header[2] = BitAnd(A, 255)
               /\ bus[k].header[1] \div 16 = opcode
               /\ (bus[k].header[1] % 16) * 256 + bus[k].header[2] = A

\* A register read at 0xE0C: the header bytes are 0x3E, 0x0C.
C16_Witness ==
    /\ call.name = "read_register"
    /\ Len(bus) = 1
    /\ bus[1].address = 3596
    /\ bus[1].header = <<62, 12>>

-----------------------------------------------------------------------------
(* Claims about the order of transfers.                                    *)

\* The k-th transfer of a transmit on FIFO M, as the claim orders them; the
\* read of the control register before its write is the fifth.
C17_Step(k, M) ==
    LET t == bus[k]
        ua == bus[2].value.fifoua
    IN CASE k = 1 -> t.op = "read_register" /\ t.address = ADDR_FIFOStatus(M)
         [] k = 2 -> t.op = "read_register" /\ t.address = ADDR_FIFOUserAddress(M)
         [] k = 3 -> /\ t.op = "write_bytes"
                     /\ t.address = RAM_START + ua
                     /\ Len(t.data) = 8
         [] k = 4 -> /\ t.op = "write_bytes"
                     /\ t.address = RAM_START + ua + 8
                     /\ t.data = data(frame)
         [] k = 5 -> t.op = "read_register" /\ t.address = ADDR_FIFOControl(M)
         [] k = 6 -> /\ t.op = "write_register"
                     /\ t.address = ADDR_FIFOControl(M)
                     /\ t.value.uinc
                     /\ t.value.txreq
         [] OTHER -> FALSE

\* C17: a transmit on a FIFO that is not full issues, in this order: the
\* status read, the user-address read, the write of the 8-byte header at the
\* address just read, the write of the payload 8 bytes further, and one write
\* of the FIFO control register with UINC and TXREQ both set; a call that
\* returns Ok has issued all of them.
C17_TransmitOrder ==
    call.name = "transmit" =>
        /\ \A k \in 1 .. Len(bus) : C17_Step(k, call.M)
        /\ result = Ok(Unit) => Len(bus) = 6 /\ \A k \in 1 .. 6 : bus[k].ok

\* A transmit that returned Ok after the FIFO's address had moved on from
\* the start of the FIFO.
C17_Witness ==
    /\ call.name = "transmit"
    /\ result = Ok(Unit)
    /\ Len(bus) = 6
    /\ bus[2].value.fifoua = TxBase(call.M) + TxObjectSize
    /\ bus[3].address = RAM_START + TxBase(call.M) + TxObjectSize

\* The call was a receive that returned a frame.
C18_ReturnedFrame(c, r) ==
    c.name = "receive" /\ r.tag = "Ok" /\ r.value.tag = "Some"

\* What a receive that returned a frame from FIFO i has put on the bus: after
\* the two interrupt reads, the user address of FIFO i, the 8 header bytes at
\* that address, the 64 payload bytes behind them, and the control register
\* of FIFO i read and written back once with UINC; the frame returned is the
\* decoding of the bytes read.
C18_ReadThenAdvance ==
    C18_ReturnedFrame(call, result) =>
        LET i == result.value.value[1]
            ua == bus[3].value.fifoua
        IN /\ Len(bus) = 7
           /\ bus[3].op = "read_register" /\ bus[3].address = ADDR_FIFOUserAddress(i)
           /\ bus[4].op = "read_bytes" /\ bus[4].address = RAM_START + ua
           /\ Len(bus[4].data) = 8
           /\ bus[5].op = "read_bytes" /\ bus[5].address = RAM_START + ua + 8
           /\ Len(bus[5].data) = 64
           /\ bus[6].op = "read_register" /\ bus[6].address = ADDR_FIFOControl(i)
           /\ bus[7].op = "write_register" /\ bus[7].address = ADDR_FIFOControl(i)
           /\ bus[7].value.uinc
           /\ \A k \in 1 .. 6 : bus[k].op \notin {"write_register", "write_bytes"}
           /\ \A k \in 3 .. 7 : TransferIsOfFifo(bus[k], i)
           /\ result.value.value[2]
                  = from_rx_message(from_bytes(bus[4].data), bus[5].data,
                                    call.overflow_checks).value

\* A receive consumes the message it returns, from the FIFO whose index it
\* returns, and no other; a receive that returns no frame consumes none.
C18_ConsumesOne ==
    call'.name = "receive" =>
        IF C18_ReturnedFrame(call', result')
        THEN LET i == result'.value.value[1]
             IN /\ chip.rx[i].queue # <<>>
                /\ chip'.rx[i].queue = Tail(chip.rx[i].queue)
                /\ \A M \in SampleRxFifos \ {i} : chip'.rx[M] = chip.rx[M]
        ELSE chip'.rx = chip.rx

\* C18: a receive that returns a frame from FIFO i reads the user address,
\* the header and the payload of FIFO i, then writes UINC to FIFO i's control
\* register exactly once; the call consumes that one message and no other,
\* writes no other FIFO's registers, and returns i with the decoded frame.
C18_OneMessagePerCall == []C18_ReadThenAdvance /\ [][C18_ConsumesOne]_vars

\* A receive that returned the message of FIFO 5 while FIFO 31 held one too.
C18_Witness ==
    /\ C18_ReturnedFrame(call, result)
    /\ result.value.value[1] = 5
    /\ Len(bus) = 7
    /\ chip.rx[5].queue = <<>>
    /\ chip.rx[31].queue # <<>>

\* The transfers of a call that change the chip, in the order issued.
Writes == SelectSeq(bus, LAMBDA t : t.op \in {"reset", "write_register", "write_bytes"})

\* The number of writes initialize_ram issues.
RamWrites == RAM_SIZE \div INIT_INCREMENT

\* The k-th write of reset_and_apply_config, as the claim orders them.
C19_Step(t, k) ==
    CASE k = 1 -> t.op = "reset"
      [] k = 2 -> t.op = "write_register" /\ t.address = ADDR_ECCControl
      [] k \in 3 .. RamWrites + 2 -> t.op = "write_bytes"
      [] k = RamWrites + 3 -> t.op = "write_register" /\ t.address = ADDR_CANControl
      [] k = RamWrites + 4 ->
             t.op = "write_register" /\ t.address = ADDR_NominalBitTimeConfig
      [] k = RamWrites + 5 ->
             t.op = "write_register" /\ t.address = ADDR_DataBitTimeConfig
      [] k = RamWrites + 6 ->
             t.op = "write_register" /\ t.address = ADDR_TransmitterDelayCompensation
      [] k = RamWrites + 7 -> /\ t.op = "write_register"
                              /\ t.address = ADDR_Interrupts
                              /\ t.value.rxie
                              /\ t.value.cerrie
                              /\ ~t.value.txie
      [] OTHER -> FALSE

\* C19: reset_and_apply_config writes in this order: reset; ECC control; the
\* RAM initialization; CAN control; nominal bit time; data bit time;
\* transmitter delay compensation; and last the interrupt enables, with
\* receive and bus-error enabled and transmit disabled.  Nothing is written
\* before the reset and no RAM byte before the ECC setting; with a supported
\* triple and a working transport all of them are written.
C19_ConfigurationOrder ==
    call.name = "reset_and_apply_config" =>
        /\ \A k \in 1 .. Len(Writes) : C19_Step(Writes[k], k)
        /\ (IsSupported(cfg) /\ call.fail = 0)
              => (result = Ok(Unit) /\ Len(Writes) = RamWrites + 7)

\* A configuration that went through to the interrupt enables.
C19_Witness ==
    /\ call.name = "reset_and_apply_config"
    /\ result = Ok(Unit)
    /\ Len(Writes) = RamWrites + 7
    /\ Writes[RamWrites + 7].address = ADDR_Interrupts
    /\ chip.regs.intr.rxie

\* The RAM writes of a reset_and_apply_config that got past the RAM
\* initialization: RamWrites writes of INIT_INCREMENT bytes, the first at the
\* start of RAM, each where the one before ended, the last ending where RAM
\* ends, so that every byte of RAM is written exactly once and none outside
\* it; every byte written is v.
C20_RamFilledWith(v) ==
    (call.name = "reset_and_apply_config" /\ result.tag \in {"Ok", "Panic"}) =>
        LET W == SelectSeq(bus, LAMBDA t : t.op = "write_bytes")
        IN /\ Len(W) = 32
           /\ \A k \in 1 .. Len(W) :
                  /\ W[k].address = RAM_START + 64 * (k - 1)
                  /\ W[k].data = [j \in 1 .. 64 |-> v]
           /\ W[Len(W)].address + 64 = RAM_START + 2048
           /\ \A b \in RamBlocks : chip.ram[b] = v

\* C20 as stated: the RAM initialization writes the value zero to every byte
\* offset 0 .. 2047 exactly once, in 32 writes of 64 bytes at offsets 0, 64,
\* ..., 1984, and no byte outside the region.
C20_RamZeroFilled == C20_RamFilledWith(0)

\* C20, amended: the RAM initialization writes the value 0xFF to every byte
\* offset 0 .. 2047 exactly once, in 32 writes of 64 bytes at offsets 0, 64,
\* ..., 1984, and no byte outside the region.
C20_RamFilledWithFF == C20_RamFilledWith(255)

\* A configuration call after whose RAM initialization every block holds 0xFF.
C20_Witness ==
    /\ call.name = "reset_and_apply_config"
    /\ result.tag = "Ok"
    /\ Len(SelectSeq(bus, LAMBDA t : t.op = "write_bytes")) = 32
    /\ \A b \in RamBlocks : chip.ram[b] = 255

-----------------------------------------------------------------------------
(* Claims about the resolved bit timing.                                   *)

\* C21: for every supported triple the resolved delay-compensation mode is
\* automatic (0b10), except for the data rates 500K and 833K, for which it is
\* the non-automatic mode with the table's offset: 31 for 500K, 18 for 833K.
C21_TdcMode ==
    (call.name = "get_config" /\ result.tag = "Some") =>
        LET d == cfg.bit_rate.data
            r == result.value
        IN CASE d = "Rate500K" -> r.tdc_mode = 0 /\ r.tdc_offset = 31
             [] d = "Rate833K" -> r.tdc_mode = 0 /\ r.tdc_offset = 18
             [] OTHER -> r.tdc_mode = 2

\* The resolver asked for 250K / 833K at 40 MHz.
C21_Witness ==
    /\ call.name = "get_config"
    /\ cfg.clock = "Clock40MHz"
    /\ cfg.bit_rate = [arbitration |-> "Rate250K", data |-> "Rate833K"]
    /\ result.tag = "Some"
    /\ result.value.tdc_mode = 0
    /\ result.value.tdc_offset = 18

-----------------------------------------------------------------------------
(* Claims about the FIFO and filter configuration.                         *)

\* C22: configure_fifo writes the FIFO control register with the FIFO-reset
\* bit set, whatever the direction; the not-empty interrupt enable is set
\* when the FIFO is configured as receive and clear when it is configured as
\* transmit.  A configuration whose depth and priority fit their fields is
\* written.
C22_ResetAndNotEmptyInterrupt ==
    call.name = "configure_fifo" =>
        /\ \A k \in 1 .. Len(bus) :
               /\ bus[k].op = "write_register"
               /\ bus[k].address = ADDR_FIFOControl(call.M)
               /\ bus[k].value.freset
               /\ bus[k].value.tfnrfnie <=> ~cfg.transmit
               /\ bus[k].value.txen <=> cfg.transmit
        /\ (cfg.size \in 1 .. 32 /\ FitsB5(cfg.priority)) => Len(bus) = 1

\* A receive FIFO was configured: reset, with its not-empty interrupt.
C22_Witness ==
    /\ call.name = "configure_fifo"
    /\ ~cfg.transmit
    /\ result = Ok(Unit)
    /\ bus[1].value.freset
    /\ bus[1].value.tfnrfnie
    /\ chip.fifocon[call.M].tfnrfnie

\* The k-th transfer of configure_filter for filter M and FIFO F.
C23_Step(t, k, M, F) ==
    CASE k = 1 -> t.op = "write_register" /\ t.address = 496 + 8 * M
      [] k = 2 -> t.op = "write_register" /\ t.address = 500 + 8 * M
      [] k = 3 -> /\ t.op = "write_register_byte"
                  /\ t.address = 464 + M
                  /\ t.value = 128 + F
      [] OTHER -> FALSE

\* What configure_filter puts on the bus, and what it leaves on the chip
\* when it returns Ok: the one byte of filter M, enable set and pointer F.
C23_WritesOwnSlot ==
    call.name = "configure_filter" =>
        /\ \A k \in 1 .. Len(bus) : C23_Step(bus[k], k, call.M, call.RXFIFO)
        /\ result = Ok(Unit) =>
               /\ Len(bus) = 3
               /\ FilterEnabled(chip, call.M)
               /\ FilterPointer(chip, call.M) = call.RXFIFO

\* A configure_filter call leaves the slot of every other filter as it was.
C23_OthersUnchanged ==
    call'.name = "configure_filter" =>
        \A m \in Filters \ {call'.M} : chip'.fltcon[m] = chip.fltcon[m]

\* C23: configure_filter for filter M and FIFO F enables filter M and binds
\* it to F by writing only filter M's slot of the filter control registers;
\* the enable bit and the FIFO pointer of every other filter stay as they
\* were, so each filter's binding is the one its latest call gave it.
C23_FilterBinding == []C23_WritesOwnSlot /\ [][C23_OthersUnchanged]_vars

\* Filter 1 was bound to FIFO 31, then filter 0, its neighbour in the same
\* register, to FIFO 1; filter 1 is still bound to FIFO 31.
C23_Witness ==
    /\ call.name = "configure_filter"
    /\ call.M = 0
    /\ call.RXFIFO = 1
    /\ result = Ok(Unit)
    /\ FilterEnabled(chip, 0) /\ FilterPointer(chip, 0) = 1
    /\ FilterEnabled(chip, 1) /\ FilterPointer(chip, 1) = 31

\* C24: every RAM transfer of the driver stays inside the chip's RAM: its
\* wire address is RAM_START plus an offset, and every byte it reads or
\* writes lies in the RAM_SIZE bytes from RAM_START on, whatever the depth
\* and payload-size class of the FIFO and whichever of its message objects
\* the chip reports.
C24_InsideRamWindow ==
    \A k \in 1 .. Len(bus) :
        bus[k].op \in {"read_bytes", "write_bytes"} =>
            /\ bus[k].address >= RAM_START
            /\ bus[k].address + Len(bus[k].data) <= RAM_START + RAM_SIZE

\* The flags of Interrupts that are set on the chip or about to be raised.
C26_Flags(ch) ==
    { flag \in SampleFlags_raised : ch[flag] \/ flag \in ch.raising }

\* A receive call loses no flag: one that was set or was raised during the
\* call is set after it.
C26_NoFlagLost ==
    call'.name = "receive" => \A flag \in C26_Flags(chip) : chip'[flag]

\* C26: when receive clears the bus-error flag it changes no other flag of
\* the interrupt register: a flag the chip raises between the driver's read
\* of the register and its write-back (invalid message, system error) is
\* still set after the write-back.
C26_OtherFlagsKept == [][C26_NoFlagLost]_vars

\* C25: transmit never fails the multiple-of-4 precondition of write_bytes:
\* for every frame sent to a FIFO with room, the header write and the payload
\* write both have a length that is a multiple of 4, and the call goes on
\* to the write of the FIFO control register.
C25_TransmitWritesInFours ==
    call.name = "transmit" =>
        /\ result # Panic("Must write in multiples of 4 data bytes")
        /\ \A k \in 1 .. Len(bus) :
               bus[k].op = "write_bytes" => Len(bus[k].data) % 4 = 0
        /\ ( /\ call.fail = 0
             /\ bus[1].value.tfnrfnif
             /\ SeqFits(frame.sequence_number) )
           => /\ Len(bus) = 6
              /\ bus[6].op = "write_register"
              /\ bus[6].address = ADDR_FIFOControl(call.M)

\* What the driver makes of a message object, when it makes a frame of it.
C27_FrameOf(object, overflow_checks) ==
    from_rx_message(from_bytes(object.header), object.data, overflow_checks).value

\* One step of receiving without a transport failure.  The chip puts a new
\* message behind the ones waiting in its FIFO; a receive that returns a
\* frame from FIFO i returns the oldest message of FIFO i and takes it, and
\* only it, out of the FIFO; any other call leaves every FIFO as it is.
C27_Step ==
    /\ call'.name = "chip receives" =>
           /\ Len(chip'.rx[call'.M].queue) = Len(chip.rx[call'.M].queue) + 1
           /\ SubSeq(chip'.rx[call'.M].queue, 1, Len(chip.rx[call'.M].queue))
                  = chip.rx[call'.M].queue
           /\ \A M \in SampleRxFifos \ {call'.M} : chip'.rx[M] = chip.rx[M]
    /\ (call'.name = "receive" /\ \A k \in 1 .. Len(bus') : bus'[k].ok) =>
           IF C18_ReturnedFrame(call', result')
           THEN LET i == result'.value.value[1]
                IN /\ chip.rx[i].queue # <<>>
                   /\ result'.value.value[2]
                          = C27_FrameOf(Head(chip.rx[i].queue), call'.overflow_checks)
                   /\ chip'.rx[i].queue = Tail(chip.rx[i].queue)
                   /\ \A M \in SampleRxFifos \ {i} : chip'.rx[M] = chip.rx[M]
           ELSE chip'.rx = chip.rx

\* C27: over any sequence of receive calls and messages arriving, with no
\* transport failure, the frames returned from a receive FIFO are the
\* messages of that FIFO in the order they arrived, each once: every frame
\* returned is the oldest message waiting, which the call removes.
C27_FifoOrder == [][C27_Step]_vars

\* Two messages were waiting in FIFO 31; the second receive has returned the
\* second of them, read from the second message object of the FIFO.
C27_Witness ==
    /\ C18_ReturnedFrame(call, result)
    /\ result.value.value[1] = 31
    /\ \A k \in 1 .. Len(bus) : bus[k].ok
    /\ bus[3].value.fifoua = chip.layout[31].base + chip.layout[31].object_size
    /\ result.value.value[2].id = StandardId(21)
    /\ chip.rx[31].queue = <<>>
    /\ chip.rx[31].tail = 0

\* The transfer is a write of a FIFO control register that advances the
\* FIFO's pointer.
C28_Advances(t) ==
    /\ t.op = "write_register"
    /\ \E M \in 1 .. 31 : t.address = ADDR_FIFOControl(M)
    /\ t.value.uinc

\* The transfers i and j moved a message object: its header, then its payload
\* right behind it, both without failure.
C28_MessageMoved(i, j) ==
    /\ bus[i].op \in {"read_bytes", "write_bytes"}
    /\ bus[j].op = bus[i].op
    /\ bus[i].ok /\ bus[j].ok
    /\ Len(bus[i].data) = HeaderSize
    /\ bus[j].address = bus[i].address + HeaderSize

\* What a transmit or a receive has put on the bus: nothing after a transfer
\* that failed, and a write that advances a FIFO pointer (UINC, with TXREQ
\* when transmitting) only behind the header and the payload of the message.
C28_MessageBeforePointer ==
    call.name \in {"transmit", "receive"} =>
        /\ \A k \in 1 .. Len(bus) : ~bus[k].ok => k = Len(bus)
        /\ \A k \in 1 .. Len(bus) :
               C28_Advances(bus[k]) =>
                   /\ call.name = "transmit" => bus[k].value.txreq
                   /\ \E i, j \in 1 .. k - 1 : i < j /\ C28_MessageMoved(i, j)

\* A call in which a transfer failed leaves the FIFOs as they were: the
\* message of a receive is still waiting, that of a transmit is not queued.
C28_StaysPending ==
    (call'.name \in {"transmit", "receive"} /\ \E k \in 1 .. Len(bus') : ~bus'[k].ok) =>
        IF call'.name = "receive"
        THEN chip'.rx = chip.rx
        ELSE \A M \in SampleTxFifos :
                 /\ chip'.tx[M].queue = chip.tx[M].queue
                 /\ chip'.tx[M].head = chip.tx[M].head

C29_ClockKHz(clock) == IF clock = "Clock40MHz" THEN 40000 ELSE 20000

C29_RateKbps(arbitration) ==
    CASE arbitration = "Rate125K"  -> 125
      [] arbitration = "Rate250K"  -> 250
      [] arbitration = "Rate500K"  -> 500
      [] arbitration = "Rate1000K" -> 1000

\* C29: for every supported triple the arbitration timing adds up to the
\* clock, clock = rate * (brp + 1) * (tseg1 + tseg2 + 3), and every value
\* resolved fits the register field it is written to: arbitration tseg1 in
\* 8 bits, tseg2 and sjw in 7; data tseg1 in 5 bits, tseg2 and sjw in 4; the
\* delay compensation offset in 7 bits.
C29_TimingAddsUpAndFits ==
    (call.name = "get_config" /\ result.tag = "Some") =>
        LET r == result.value
        IN /\ C29_ClockKHz(cfg.clock)
                = C29_RateKbps(cfg.bit_rate.arbitration) * (r.arbitration_brp + 1)
                    * (r.arbitration_tseg1 + r.arbitration_tseg2 + 3)
           /\ r.arbitration_brp \in 0 .. 255
           /\ r.arbitration_tseg1 \in 0 .. 255
           /\ r.arbitration_tseg2 \in 0 .. 127
           /\ r.arbitration_sjw \in 0 .. 127
           /\ r.data_brp \in 0 .. 255
           /\ r.data_tseg1 \in 0 .. 31
           /\ r.data_tseg2 \in 0 .. 15
           /\ r.data_sjw \in 0 .. 15
           /\ r.tdc_offset \in 0 .. 127
           /\ r.tdc_value \in 0 .. 63
           /\ r.tdc_mode \in 0 .. 3

\* The resolver asked for 500K / 2M at 40 MHz: 62 + 15 + 3 = 80 quanta.
C29_Witness ==
    /\ call.name = "get_config"
    /\ cfg.clock = "Clock40MHz"
    /\ cfg.bit_rate = [arbitration |-> "Rate500K", data |-> "Rate2M"]
    /\ result.tag = "Some"
    /\ result.value.arbitration_brp = 0
    /\ result.value.arbitration_tseg1 = 62
    /\ result.value.arbitration_tseg2 = 15

\* C30: encoding is total over the frames the public API builds: for every
\* frame made by Frame::new, with any DLC set by with_dlc and any 32-bit
\* sequence number set by with_sequence_number, as_components yields a
\* header, and the header's sequence field equals the frame's sequence
\* number.
C30_EncodingTotal ==
    call.name = "as_components" =>
        /\ header.tag = "Ok"
        /\ header.value.header.seq = frame.sequence_number

=============================================================================
